---- MODULE Spec2Model ----
(***************************************************************************)
(* Verification model of the resilient fetch engine of storystock:         *)
(*   - the single-flight coalescer, DataMerger.merge_stock_data            *)
(*     (backend/engines/merger.py);                                        *)
(*   - the circuit breaker, CircuitBreaker (backend/utils/api_resilience.py)*)
(*     as driven by cached_api_call.wrapper;                               *)
(*   - the task scheduler, RequestScheduler                                *)
(*     (backend/services/request_scheduler.py);                            *)
(*   - the cache tiers, APICache (backend/utils/api_resilience.py) and     *)
(*     CacheService (backend/services/cache_service.py).                   *)
(*   - the rate limiter, RateLimiter (backend/utils/api_resilience.py);     *)
(*   - retry_with_backoff with its RetryCoordinator and request budget     *)
(*     (backend/utils/api_resilience.py);                                  *)
(*   - the caching façade cached_api_call (backend/utils/api_resilience.py) *)
(*     over the APICache and the CircuitBreaker;                           *)
(*   - the analysis cache cached_stock_data                               *)
(*     (backend/services/cache_service.py) over the CacheService and the   *)
(*     scheduler;                                                          *)
(*   - the backoff schedule of retry_with_backoff                          *)
(*     (backend/utils/api_resilience.py);                                  *)
(*   - the durable store PersistentCache                                   *)
(*     (backend/services/persistent_cache.py) under concurrent writers;    *)
(*   - the per-client limiter UserRateLimiter                             *)
(*     (backend/services/user_rate_limiter.py);                            *)
(* Each component has its own specification over the shared variables; the *)
(* other components stay in their initial state.                           *)
(***************************************************************************)
EXTENDS Integers, Sequences, FiniteSets, TLC

VARIABLES
    \* ---- DataMerger (class-level, shared by every instance) ----
    pending_requests,   \* _pending_requests: symbol_key -> entry reference
    entries,            \* the entry dicts on the heap: {"event","result","error"}
    calls_left,         \* merge_stock_data calls still to arrive
    fetch_log,          \* history: per entry, the outcomes of its _build_context runs
    \* ---- one merge_stock_data activation per caller thread ----
    pc,                 \* position of the caller inside merge_stock_data
    symbol,             \* argument `symbol`
    entry,              \* local `entry` (reference into entries)
    is_owner,           \* local `is_owner`
    result,             \* local outcome of _build_context (`result` / `e`)
    outcome,            \* what the call returned or raised
    \* ---- CircuitBreaker (one shared instance) ----
    failure_threshold,  \* constructor arguments
    window_seconds,
    recovery_timeout,
    state,              \* _state
    failures,           \* _failures: deque of timestamps, oldest on the left
    opened_until,       \* _opened_until
    now,                \* what time.time() returns at this instant
    requests_left,      \* cached_api_call.wrapper calls still to arrive
    recorded,           \* history: timestamps of the throttling failures
                        \* recorded since the last record_success
    probe,              \* history: the request that moved OPEN to HALF_OPEN and
                        \* whose outcome is not recorded yet
    last_probe,         \* history: how the latest such request ended
    \* ---- one cached_api_call.wrapper activation per request thread ----
    rpc,                \* position of the request inside the wrapper
    r_now,              \* local `now` of allow_request / record_failure
    r_exc,              \* the exception the wrapped function raised
    allowed,            \* what allow_request returned to this request
    \* ---- RequestScheduler (one shared instance) ----
    queue,              \* _queue: the heap list of task tuples
    inflight_keys,      \* _inflight_keys
    running,            \* _running
    sched_now,          \* what time.time() returns at this instant
    schedules_left,     \* schedule calls still to arrive
    spc,                \* position of the thread calling schedule
    last_call,          \* history: key and result of the latest schedule call
    crashed,            \* history: a thread left _worker with an exception
    \* ---- the threads started with target=_worker ----
    wpc,                \* position of the thread inside _worker
    task,               \* locals run_at, priority, fn, args, kwargs, key
    caught,             \* the action of the task raised (local `e`)
    \* ---- APICache (one instance) ----
    memory_cache,       \* memory_cache: OrderedDict, oldest item first
    disk_files,         \* the files {key}.json of cache_dir
    enable_memory,      \* constructor arguments
    enable_disk,
    max_entries,
    disk_ok,            \* cache_dir can be read and written
    cache_now,          \* what time.time() returns at this instant
    cache_ops_left,     \* get/set calls still to arrive
    recency,            \* history: keys of memory_cache by latest use
    last_op,            \* history: the latest call and what it returned
    \* ---- CacheService, its Redis client and its PersistentCache ----
    redis_enabled,      \* self.enabled
    redis_up,           \* the Redis server can be reached
    redis_store,        \* what the Redis server holds
    sqlite_ok,          \* the SQLite file can be opened
    sqlite_store,       \* table cache_entries
    \* ---- RateLimiter (one shared instance) ----
    min_interval,       \* constructor argument
    jitter_span,        \* jitter * min_interval
    limiter_last_call,  \* _last_call
    limiter_lock,       \* the thread holding _lock, NoThread when free
    limiter_now,        \* what time.time() returns at this instant
    waits_left,         \* wait calls still to arrive
    returns,            \* history: the two latest wait calls that returned
    \* ---- one wait activation per thread ----
    lpc,                \* position of the thread inside wait
    entered_at,         \* local `now`
    wake_at,            \* when its time.sleep is over
    \* ---- RetryCoordinator (one shared instance) ----
    max_retries,        \* constructor arguments
    retry_window_seconds,
    retry_timestamps,   \* _retry_timestamps: key -> deque, oldest on the left
    cooldowns,          \* _cooldowns: key -> until
    retry_now,          \* what time.time() returns at this instant
    \* ---- retry_with_backoff: decorator arguments ----
    max_attempts,
    retry_on_rate_limit,
    retry_calls_left,   \* wrapper calls still to arrive
    \* ---- one request context (request_budget) per caller thread ----
    budget_max_attempts,\* RequestBudget.max_attempts
    budget_attempts,    \* RequestBudget.attempts
    invocations,        \* history: calls of the wrapped function in the context
    \* ---- one retry_with_backoff.wrapper activation per caller thread ----
    bpc,                \* position of the caller inside the wrapper
    attempt,            \* loop variable `attempt`
    retry_key,          \* local `retry_key`
    last_exception,     \* local `e` / `last_exception`
    back_at,            \* when its time.sleep is over
    call_result,        \* history: how the caller's latest call ended
    func_failures,      \* history: what the wrapped function raised in this call
    reraised,           \* history: the exception line 463 raised, if it did
    \* ---- cached_api_call over _api_cache and a CircuitBreaker ----
    facade_ttl,         \* decorator arguments
    allow_stale_on_error,
    has_breaker,        \* circuit_breaker is not None
    facade_calls_left,  \* wrapper calls still to arrive
    facade_last,        \* history: the latest wrapper call and how it ended
    \* ---- cached_stock_data over CacheService and the scheduler ----
    stale_ttl,          \* ANALYSIS_STALE_TTL_SECONDS
    swr_enabled,        \* is_enabled("FEATURE_SWR", ...)
    analysis_calls_left,\* requests still to arrive
    analysis_last,      \* history: the latest request and how it ended
    \* ---- retry_with_backoff: the waits between the attempts of one call ----
    initial_delay,      \* decorator arguments, times in tenths of a second,
    backoff_factor,     \* the factor in tenths,
    jitter,             \* the jitter in hundredths
    backoff_attempts,   \* decorator argument max_attempts
    backoff_calls_left, \* wrapper calls still to arrive
    delay,              \* local `delay`
    failed_attempt,     \* loop variable `attempt`, 0 outside a call
    base_waits,         \* history: the `delay` of the two latest sleeps
    backoff_jitter,       \* local `jitter_delta` of the latest sleep
    \* ---- PersistentCache (one instance) under concurrent set calls ----
    cache_entries,      \* table cache_entries: key -> row
    persist_now,        \* what time.time() returns at this instant
    persist_calls_left, \* set calls still to arrive
    completed,          \* history: per key, the cached_at of the sets that returned
    \* ---- one PersistentCache.set activation per writer thread ----
    ppc,                \* position of the writer inside set
    p_args,             \* arguments key, value, ttl
    p_now,              \* local `now`
    \* ---- UserRateLimiter (one shared instance) ----
    user_events,        \* _events: key -> deque of timestamps, oldest on the left
    user_limit,         \* arguments limit and window_seconds of the calls
    user_window,
    user_now,           \* what time.time() returns at this instant
    user_calls_left,    \* allow calls still to arrive
    granted,            \* history: per key and clock reading, the calls that
                        \* returned True
    \* ---- one allow activation per caller thread ----
    upc,                \* position of the caller inside allow
    u_key,              \* argument `key`
    u_now,              \* local `now`
    u_ret               \* what its latest call returned

mergerVars == <<pending_requests, entries, calls_left, fetch_log,
                pc, symbol, entry, is_owner, result, outcome>>

breakerVars == <<failure_threshold, window_seconds, recovery_timeout,
                 state, failures, opened_until, now, requests_left,
                 recorded, probe, last_probe, rpc, r_now, r_exc, allowed>>

schedulerVars == <<queue, inflight_keys, running, sched_now, schedules_left,
                   spc, last_call, crashed, wpc, task, caught>>

cacheVars == <<memory_cache, disk_files, enable_memory, enable_disk,
               max_entries, disk_ok, cache_now, cache_ops_left, recency,
               last_op, redis_enabled, redis_up, redis_store, sqlite_ok,
               sqlite_store>>

limiterVars == <<min_interval, jitter_span, limiter_last_call, limiter_lock,
                 limiter_now, waits_left, returns, lpc, entered_at,
                 wake_at>>

retryVars == <<max_retries, retry_window_seconds, retry_timestamps, cooldowns,
               retry_now, max_attempts, retry_on_rate_limit, retry_calls_left,
               budget_max_attempts, budget_attempts, invocations, bpc,
               attempt, retry_key, last_exception, back_at, call_result,
               func_failures, reraised>>

facadeVars == <<facade_ttl, allow_stale_on_error, has_breaker,
                facade_calls_left, facade_last>>

analysisVars == <<stale_ttl, swr_enabled, analysis_calls_left, analysis_last>>

backoffVars == <<initial_delay, backoff_factor, jitter, backoff_attempts,
    backoff_calls_left, delay, failed_attempt, base_waits, backoff_jitter>>

persistVars == <<cache_entries, persist_now, persist_calls_left, completed,
    ppc, p_args, p_now>>

userVars == <<user_events, user_limit, user_window, user_now, user_calls_left,
    granted, upc, u_key, u_now, u_ret>>

vars == <<mergerVars, breakerVars, schedulerVars, cacheVars,
    limiterVars,
    retryVars,
    facadeVars,
    analysisVars,
    backoffVars,
    persistVars,
    userVars>>

\* What the actions of one component leave alone.
nonMergerVars == <<breakerVars, schedulerVars, cacheVars,
    limiterVars,
    retryVars,
    facadeVars,
    analysisVars,
    backoffVars,
    persistVars,
    userVars>>
nonBreakerVars == <<mergerVars, schedulerVars, cacheVars,
    limiterVars,
    retryVars,
    facadeVars,
    analysisVars,
    backoffVars,
    persistVars,
    userVars>>
nonSchedulerVars == <<mergerVars, breakerVars, cacheVars,
    limiterVars,
    retryVars,
    facadeVars,
    analysisVars,
    backoffVars,
    persistVars,
    userVars>>
nonCacheVars == <<mergerVars, breakerVars, schedulerVars,
    limiterVars,
    retryVars,
    facadeVars,
    analysisVars,
    backoffVars,
    persistVars,
    userVars>>
nonLimiterVars == <<mergerVars,
    breakerVars,
    schedulerVars,
    cacheVars,
    retryVars,
    facadeVars,
    analysisVars,
    backoffVars,
    persistVars,
    userVars>>
nonRetryVars == <<mergerVars,
    breakerVars,
    schedulerVars,
    cacheVars,
    limiterVars,
    facadeVars,
    analysisVars,
    backoffVars,
    persistVars,
    userVars>>
nonFacadeVars == <<mergerVars,
    breakerVars,
    schedulerVars,
    cacheVars,
    limiterVars,
    retryVars,
    analysisVars,
    backoffVars,
    persistVars,
    userVars>>
nonAnalysisVars == <<mergerVars,
    breakerVars,
    schedulerVars,
    cacheVars,
    limiterVars,
    retryVars,
    facadeVars,
    backoffVars,
    persistVars,
    userVars>>

\* What a call of cached_api_call.wrapper, and what a request through
\* decorated_function, has no access to.
nonFacadeCallVars == <<mergerVars, schedulerVars, limiterVars, retryVars,
    analysisVars,
    backoffVars,
    persistVars,
    userVars>>
nonAnalysisCallVars == <<mergerVars, breakerVars, limiterVars, retryVars,
    facadeVars,
    backoffVars,
    persistVars,
    userVars>>
nonBackoffVars == <<mergerVars,
    breakerVars,
    schedulerVars,
    cacheVars,
    limiterVars,
    retryVars,
    facadeVars,
    analysisVars,
    persistVars,
    userVars>>
nonPersistVars == <<mergerVars,
    breakerVars,
    schedulerVars,
    cacheVars,
    limiterVars,
    retryVars,
    facadeVars,
    analysisVars,
    backoffVars,
    userVars>>
nonUserVars == <<mergerVars,
    breakerVars,
    schedulerVars,
    cacheVars,
    limiterVars,
    retryVars,
    facadeVars,
    analysisVars,
    backoffVars,
    persistVars>>

-----------------------------------------------------------------------------
(* Bounds of the coalescer model: the number of merge_stock_data calls that
   arrive in a run, under any interleaving (MaxCalls) and under fair
   scheduling (MaxFairCalls). *)
MaxCalls == 3
MaxFairCalls == 2

\* The request threads that call merge_stock_data concurrently.
Callers == {1, 2, 3}
\* At most one live entry per caller: every live entry is referenced by the
\* local `entry` of some caller inside merge_stock_data.
EntryIds == 1..Cardinality(Callers)

\* Python's None, as a value that compares unequal to every context and
\* exception.
None == [none |-> TRUE]
NoSymbol == "-"
NoEntry == 0

\* Symbols as callers pass them; merge_stock_data keys the map by symbol.upper().
Symbols == {"tcs", "TCS", "infy"}

upper(s) ==
    CASE s = "tcs" -> "TCS"
      [] s = "TCS" -> "TCS"
      [] s = "infy" -> "INFY"

SymbolKeys == {upper(s) : s \in Symbols}

\* What one run of _build_context can produce: a context (its "symbol" field is
\* symbol.upper(), the rest depends on what the upstream served) or an Exception.
Snapshots == {"snapA", "snapB"}
Errors == {[exc |-> "UpstreamError"]}

Context(s, snap) == [symbol |-> upper(s), data |-> snap]
Returned(v) == [kind |-> "return", value |-> v]
Raised(e) == [kind |-> "raise", value |-> e]

NewEntry == [event |-> FALSE, result |-> None, error |-> None]

-----------------------------------------------------------------------------
(* merge_stock_data, one action per atomic step *)

\* A faulty variant: the map is keyed by the symbol as passed.
SymbolKeyRaw(s) == s

\* merger.py:33: symbol_key, the key under which the pending entry is kept.
SymbolKey(s) == upper(s)

\* An entry dict lives as long as the map or some other caller's local `entry`
\* refers to it.
Referenced(e, t) ==
    \/ \E k \in DOMAIN pending_requests : pending_requests[k] = e
    \/ \E u \in Callers \ {t} : entry[u] = e

\* merger.py:40-41: a new entry dict is a new object; its reference is one that
\* no live entry has (the address of a dict that was garbage-collected may be
\* reused).
FreshEntry == CHOOSE e \in EntryIds : ~Referenced(e, 0)

\* merger.py:33-46: the `with self._pending_lock` block. A caller that finds an
\* entry keeps a reference to it and goes to event.wait(); otherwise it creates
\* the entry, registers it and becomes the owner.
Lookup(t, s) ==
    /\ pc[t] = "idle"
    /\ calls_left > 0
    /\ calls_left' = calls_left - 1
    /\ symbol' = [symbol EXCEPT ![t] = s]
    /\ IF pending_requests[SymbolKey(s)] # NoEntry
       THEN /\ entry' = [entry EXCEPT ![t] = pending_requests[SymbolKey(s)]]
            /\ is_owner' = [is_owner EXCEPT ![t] = FALSE]
            /\ pc' = [pc EXCEPT ![t] = "wait"]
            /\ UNCHANGED <<pending_requests, entries>>
       ELSE /\ entries' = [entries EXCEPT ![FreshEntry] = NewEntry]
            /\ pending_requests' =
                   [pending_requests EXCEPT ![SymbolKey(s)] = FreshEntry]
            /\ entry' = [entry EXCEPT ![t] = FreshEntry]
            /\ is_owner' = [is_owner EXCEPT ![t] = TRUE]
            /\ pc' = [pc EXCEPT ![t] = "sleep"]
    /\ UNCHANGED <<fetch_log, result, outcome>>
    /\ UNCHANGED nonMergerVars

\* A faulty variant: the owner sets the event before it has anything to store.
FetchStartSignalsEarly(t) ==
    /\ pc[t] = "sleep"
    /\ pc' = [pc EXCEPT ![t] = "fetch"]
    /\ entries' = [entries EXCEPT ![entry[t]].event = TRUE]
    /\ UNCHANGED <<pending_requests, calls_left, fetch_log, symbol, entry,
                   is_owner, result, outcome>>
    /\ UNCHANGED nonMergerVars

\* merger.py:52-53: the coalescing window has elapsed, _build_context starts.
FetchStart(t) ==
    /\ pc[t] = "sleep"
    /\ pc' = [pc EXCEPT ![t] = "fetch"]
    /\ UNCHANGED <<pending_requests, entries, calls_left, fetch_log, symbol, entry,
                   is_owner, result, outcome>>
    /\ UNCHANGED nonMergerVars

\* merger.py:53: _build_context returns a context.
FetchReturn(t, snap) ==
    /\ pc[t] = "fetch"
    /\ result' = [result EXCEPT ![t] = Returned(Context(symbol[t], snap))]
    /\ fetch_log' = [fetch_log EXCEPT
                       ![entry[t]] = Append(@, Returned(Context(symbol[t], snap)))]
    /\ pc' = [pc EXCEPT ![t] = "store_result"]
    /\ UNCHANGED <<pending_requests, entries, calls_left, symbol, entry, is_owner,
                   outcome>>
    /\ UNCHANGED nonMergerVars

\* merger.py:53,56: _build_context raises an Exception.
FetchRaise(t, e) ==
    /\ pc[t] = "fetch"
    /\ result' = [result EXCEPT ![t] = Raised(e)]
    /\ fetch_log' = [fetch_log EXCEPT ![entry[t]] = Append(@, Raised(e))]
    /\ pc' = [pc EXCEPT ![t] = "store_error"]
    /\ UNCHANGED <<pending_requests, entries, calls_left, symbol, entry, is_owner,
                   outcome>>
    /\ UNCHANGED nonMergerVars

\* merger.py:54: entry["result"] = result.
StoreResult(t) ==
    /\ pc[t] = "store_result"
    /\ entries' = [entries EXCEPT ![entry[t]].result = result[t].value]
    /\ pc' = [pc EXCEPT ![t] = "signal"]
    /\ UNCHANGED <<pending_requests, calls_left, fetch_log, symbol, entry, is_owner,
                   result, outcome>>
    /\ UNCHANGED nonMergerVars

\* merger.py:57: entry["error"] = e.
StoreError(t) ==
    /\ pc[t] = "store_error"
    /\ entries' = [entries EXCEPT ![entry[t]].error = result[t].value]
    /\ pc' = [pc EXCEPT ![t] = "signal"]
    /\ UNCHANGED <<pending_requests, calls_left, fetch_log, symbol, entry, is_owner,
                   result, outcome>>
    /\ UNCHANGED nonMergerVars

\* merger.py:60: entry["event"].set().
Signal(t) ==
    /\ pc[t] = "signal"
    /\ entries' = [entries EXCEPT ![entry[t]].event = TRUE]
    /\ pc' = [pc EXCEPT ![t] = "pop"]
    /\ UNCHANGED <<pending_requests, calls_left, fetch_log, symbol, entry, is_owner,
                   result, outcome>>
    /\ UNCHANGED nonMergerVars

\* A faulty variant: the owner leaves without removing the pending entry.
PopKeepsEntry(t) ==
    /\ pc[t] = "pop"
    /\ outcome' = [outcome EXCEPT ![t] = result[t]]
    /\ pc' = [pc EXCEPT ![t] = "done"]
    /\ UNCHANGED <<pending_requests, entries, calls_left, fetch_log, symbol, entry,
                   is_owner, result>>
    /\ UNCHANGED nonMergerVars

\* merger.py:61-62 then 55/58: pop the key under the lock, then the pending
\* `return result` / `raise` of the try block completes.
Pop(t) ==
    /\ pc[t] = "pop"
    /\ pending_requests' =
           [pending_requests EXCEPT ![SymbolKey(symbol[t])] = NoEntry]
    /\ outcome' = [outcome EXCEPT ![t] = result[t]]
    /\ pc' = [pc EXCEPT ![t] = "done"]
    /\ UNCHANGED <<entries, calls_left, fetch_log, symbol, entry, is_owner, result>>
    /\ UNCHANGED nonMergerVars

\* merger.py:46: event.wait() returns once the event is set.
Wake(t) ==
    /\ pc[t] = "wait"
    /\ entries[entry[t]].event
    /\ pc' = [pc EXCEPT ![t] = "read"]
    /\ UNCHANGED <<pending_requests, entries, calls_left, fetch_log, symbol, entry,
                   is_owner, result, outcome>>
    /\ UNCHANGED nonMergerVars

\* A faulty variant: the waiter returns entry["result"] whatever the error.
WaiterReadIgnoresError(t) ==
    /\ pc[t] = "read"
    /\ outcome' = [outcome EXCEPT ![t] = Returned(entries[entry[t]].result)]
    /\ pc' = [pc EXCEPT ![t] = "done"]
    /\ UNCHANGED <<pending_requests, entries, calls_left, fetch_log, symbol, entry,
                   is_owner, result>>
    /\ UNCHANGED nonMergerVars

\* merger.py:47-49: the waiter re-raises the stored error or returns the
\* stored result.
WaiterRead(t) ==
    /\ pc[t] = "read"
    /\ outcome' = [outcome EXCEPT ![t] =
                      IF entries[entry[t]].error # None
                      THEN Raised(entries[entry[t]].error)
                      ELSE Returned(entries[entry[t]].result)]
    /\ pc' = [pc EXCEPT ![t] = "done"]
    /\ UNCHANGED <<pending_requests, entries, calls_left, fetch_log, symbol, entry,
                   is_owner, result>>
    /\ UNCHANGED nonMergerVars

\* merger.py:49,55,58: the call has returned or raised; its locals die and the
\* thread is free for another call.
Finish(t) ==
    /\ pc[t] = "done"
    /\ pc' = [pc EXCEPT ![t] = "idle"]
    /\ symbol' = [symbol EXCEPT ![t] = NoSymbol]
    /\ entry' = [entry EXCEPT ![t] = NoEntry]
    /\ is_owner' = [is_owner EXCEPT ![t] = FALSE]
    /\ result' = [result EXCEPT ![t] = None]
    /\ outcome' = [outcome EXCEPT ![t] = None]
    /\ IF Referenced(entry[t], t)
       THEN UNCHANGED <<entries, fetch_log>>
       ELSE /\ entries' = [entries EXCEPT ![entry[t]] = NewEntry]
            /\ fetch_log' = [fetch_log EXCEPT ![entry[t]] = <<>>]
    /\ UNCHANGED <<pending_requests, calls_left>>
    /\ UNCHANGED nonMergerVars

MergerInit(ncalls) ==
    /\ calls_left = ncalls
    /\ pending_requests = [k \in Symbols \cup SymbolKeys |-> NoEntry]
    /\ entries = [e \in EntryIds |-> NewEntry]
    /\ fetch_log = [e \in EntryIds |-> <<>>]
    /\ pc = [t \in Callers |-> "idle"]
    /\ symbol = [t \in Callers |-> NoSymbol]
    /\ entry = [t \in Callers |-> NoEntry]
    /\ is_owner = [t \in Callers |-> FALSE]
    /\ result = [t \in Callers |-> None]
    /\ outcome = [t \in Callers |-> None]

\* The steps a caller takes on its own once it is inside merge_stock_data; the
\* fetch itself (FetchReturn, FetchRaise) is the upstream's to finish.
OwnSteps(t) ==
    \/ FetchStart(t)
    \/ StoreResult(t)
    \/ StoreError(t)
    \/ Signal(t)
    \/ Pop(t)
    \/ Wake(t)
    \/ WaiterRead(t)
    \/ Finish(t)

MergerNext ==
    \/ \E t \in Callers, s \in Symbols : Lookup(t, s)
    \/ \E t \in Callers : FetchStart(t)
    \/ \E t \in Callers, snap \in Snapshots : FetchReturn(t, snap)
    \/ \E t \in Callers, e \in Errors : FetchRaise(t, e)
    \/ \E t \in Callers : StoreResult(t)
    \/ \E t \in Callers : StoreError(t)
    \/ \E t \in Callers : Signal(t)
    \/ \E t \in Callers : Pop(t)
    \/ \E t \in Callers : Wake(t)
    \/ \E t \in Callers : WaiterRead(t)
    \/ \E t \in Callers : Finish(t)

-----------------------------------------------------------------------------
(* CircuitBreaker, driven by the request threads of cached_api_call.wrapper *)

(* Bounds of the breaker model: the configurations tried, the clock's range
   and the number of wrapper calls that arrive in a run. *)
MaxThreshold == 3
MaxWindow == 2
MaxRecovery == 2
MaxTime == 3
MaxRequests == 3

\* ScreenerProvider._circuit, the breaker the application constructs.
ScreenerFailureThreshold == 3
ScreenerWindowSeconds == 300
ScreenerRecoveryTimeout == 300

\* The request threads that go through the wrapper concurrently.
Requests == {1, 2}
NoRequest == 0

\* Exceptions the wrapped function raises: the status code of exc.response
\* (NoStatus when the exception carries no response) and str(exc).
NoStatus == -1
Exceptions ==
    { [status |-> 429, message |-> "Client Error for url"],
      [status |-> NoStatus, message |-> "Too Many Requests"],
      [status |-> 500, message |-> "Server Error for url"],
      [status |-> NoStatus, message |-> "Read timed out" ] }

\* str.lower() on the messages above.
lower(m) ==
    CASE m = "Client Error for url" -> "client error for url"
      [] m = "Too Many Requests" -> "too many requests"
      [] m = "Server Error for url" -> "server error for url"
      [] m = "Read timed out" -> "read timed out"
      [] m = "Request retry budget exhausted" -> "request retry budget exhausted"

\* `needle in text`, for the lowered messages above and the three needles
\* is_rate_limit_error looks for.
Contains(text, needle) ==
    <<text, needle>> \in {<<"too many requests", "too many requests">>}

\* api_resilience.py:41-50.
is_rate_limit_error(exc) ==
    \/ exc.status = 429
    \/ Contains(lower(exc.message), "429")
    \/ Contains(lower(exc.message), "too many requests")
    \/ Contains(lower(exc.message), "rate limit")

\* api_resilience.py:180-182: drop the timestamps on the left that are more
\* than window_seconds before t.
RECURSIVE prune(_, _)
prune(dq, t) ==
    IF dq # <<>> /\ (t - Head(dq)) > window_seconds
    THEN prune(Tail(dq), t)
    ELSE dq

\* The history variable `recorded`: how many throttling failures were recorded
\* with each timestamp.
NoneRecorded == [t \in 0..MaxTime |-> 0]

\* The history variables once request r has recorded its outcome.
ProbeAfter(r) == IF probe = r THEN NoRequest ELSE probe
LastProbeAfter(r, how) == IF probe = r THEN how ELSE last_probe

\* api_resilience.py:501 and 185: the wrapper calls allow_request, which reads
\* the clock before it takes the lock.
AllowRequestEnter(r) ==
    /\ rpc[r] = "idle"
    /\ requests_left > 0
    /\ requests_left' = requests_left - 1
    /\ r_now' = [r_now EXCEPT ![r] = now]
    /\ r_exc' = [r_exc EXCEPT ![r] = None]
    /\ allowed' = [allowed EXCEPT ![r] = "None"]
    /\ rpc' = [rpc EXCEPT ![r] = "allow_request"]
    /\ UNCHANGED <<failure_threshold, window_seconds, recovery_timeout, state,
                   failures, opened_until, now, recorded, probe, last_probe>>
    /\ UNCHANGED nonBreakerVars

\* A faulty variant: the comparison with opened_until is the wrong way round.
AllowRequestOpensEarly(r) ==
    /\ rpc[r] = "allow_request"
    /\ IF state = "OPEN"
       THEN IF r_now[r] <= opened_until
            THEN /\ state' = "HALF_OPEN"
                 /\ probe' = r
                 /\ allowed' = [allowed EXCEPT ![r] = "True"]
                 /\ rpc' = [rpc EXCEPT ![r] = "call"]
            ELSE /\ allowed' = [allowed EXCEPT ![r] = "False"]
                 /\ rpc' = [rpc EXCEPT ![r] = "idle"]
                 /\ UNCHANGED <<state, probe>>
       ELSE /\ allowed' = [allowed EXCEPT ![r] = "True"]
            /\ rpc' = [rpc EXCEPT ![r] = "call"]
            /\ UNCHANGED <<state, probe>>
    /\ r_now' = [r_now EXCEPT ![r] = 0]
    /\ UNCHANGED <<failure_threshold, window_seconds, recovery_timeout,
                   failures, opened_until, now, requests_left, recorded, last_probe,
                   r_exc>>
    /\ UNCHANGED nonBreakerVars

\* api_resilience.py:186-192, then 501-510: the locked part of allow_request.
\* On False the wrapper serves stale data or raises CircuitOpenError; on True
\* it calls the wrapped function.
AllowRequest(r) ==
    /\ rpc[r] = "allow_request"
    /\ IF state = "OPEN"
       THEN IF r_now[r] >= opened_until
            THEN /\ state' = "HALF_OPEN"
                 /\ probe' = r
                 /\ allowed' = [allowed EXCEPT ![r] = "True"]
                 /\ rpc' = [rpc EXCEPT ![r] = "call"]
            ELSE /\ allowed' = [allowed EXCEPT ![r] = "False"]
                 /\ rpc' = [rpc EXCEPT ![r] = "idle"]
                 /\ UNCHANGED <<state, probe>>
       ELSE /\ allowed' = [allowed EXCEPT ![r] = "True"]
            /\ rpc' = [rpc EXCEPT ![r] = "call"]
            /\ UNCHANGED <<state, probe>>
    /\ r_now' = [r_now EXCEPT ![r] = 0]
    /\ UNCHANGED <<failure_threshold, window_seconds, recovery_timeout,
                   failures, opened_until, now, requests_left, recorded, last_probe,
                   r_exc>>
    /\ UNCHANGED nonBreakerVars

\* api_resilience.py:510-511: the wrapped function returns.
FuncReturn(r) ==
    /\ rpc[r] = "call"
    /\ rpc' = [rpc EXCEPT ![r] = "record_success"]
    /\ UNCHANGED <<failure_threshold, window_seconds, recovery_timeout, state,
                   failures, opened_until, now, requests_left, recorded, probe,
                   last_probe, r_now, r_exc, allowed>>
    /\ UNCHANGED nonBreakerVars

\* api_resilience.py:510,516-517: the wrapped function raises.
FuncRaise(r, exc) ==
    /\ rpc[r] = "call"
    /\ r_exc' = [r_exc EXCEPT ![r] = exc]
    /\ rpc' = [rpc EXCEPT ![r] = "record_failure"]
    /\ UNCHANGED <<failure_threshold, window_seconds, recovery_timeout, state,
                   failures, opened_until, now, requests_left, recorded, probe,
                   last_probe, r_now, allowed>>
    /\ UNCHANGED nonBreakerVars

\* A faulty variant: record_success does not clear the failure window.
RecordSuccessKeepsFailures(r) ==
    /\ rpc[r] = "record_success"
    /\ state' = "CLOSED"
    /\ recorded' = NoneRecorded
    /\ probe' = ProbeAfter(r)
    /\ last_probe' = LastProbeAfter(r, "succeeded")
    /\ rpc' = [rpc EXCEPT ![r] = "idle"]
    /\ UNCHANGED <<failure_threshold, window_seconds, recovery_timeout,
                   failures, opened_until, now, requests_left, r_now, r_exc,
                   allowed>>
    /\ UNCHANGED nonBreakerVars

\* api_resilience.py:194-197, then the wrapper returns the result.
RecordSuccess(r) ==
    /\ rpc[r] = "record_success"
    /\ failures' = <<>>
    /\ state' = "CLOSED"
    /\ recorded' = NoneRecorded
    /\ probe' = ProbeAfter(r)
    /\ last_probe' = LastProbeAfter(r, "succeeded")
    /\ rpc' = [rpc EXCEPT ![r] = "idle"]
    /\ UNCHANGED <<failure_threshold, window_seconds, recovery_timeout,
                   opened_until, now, requests_left, r_now, r_exc, allowed>>
    /\ UNCHANGED nonBreakerVars

\* A faulty variant: record_failure counts every exception.
RecordFailureEnterCountsAll(r) ==
    /\ rpc[r] = "record_failure"
    /\ r_now' = [r_now EXCEPT ![r] = now]
    /\ rpc' = [rpc EXCEPT ![r] = "record_failure_locked"]
    /\ UNCHANGED <<failure_threshold, window_seconds, recovery_timeout, state,
                   failures, opened_until, now, requests_left, recorded, probe,
                   last_probe, r_exc, allowed>>
    /\ UNCHANGED nonBreakerVars

\* api_resilience.py:200-202: record_failure returns at once for an exception
\* that is no throttling signal; otherwise it reads the clock before it takes
\* the lock.
RecordFailureEnter(r) ==
    /\ rpc[r] = "record_failure"
    /\ IF ~is_rate_limit_error(r_exc[r])
       THEN /\ rpc' = [rpc EXCEPT ![r] = "idle"]
            /\ probe' = ProbeAfter(r)
            /\ last_probe' = LastProbeAfter(r, "failed")
            /\ UNCHANGED r_now
       ELSE /\ r_now' = [r_now EXCEPT ![r] = now]
            /\ rpc' = [rpc EXCEPT ![r] = "record_failure_locked"]
            /\ UNCHANGED <<probe, last_probe>>
    /\ UNCHANGED <<failure_threshold, window_seconds, recovery_timeout, state,
                   failures, opened_until, now, requests_left, recorded,
                   r_exc, allowed>>
    /\ UNCHANGED nonBreakerVars

\* api_resilience.py:203-210, then the wrapper's stale fallback or re-raise.
RecordFailure(r) ==
    /\ rpc[r] = "record_failure_locked"
    /\ failures' = Append(prune(failures, r_now[r]), r_now[r])
    /\ IF Len(failures') >= failure_threshold
       THEN /\ state' = "OPEN"
            /\ opened_until' = r_now[r] + recovery_timeout
       ELSE UNCHANGED <<state, opened_until>>
    /\ recorded' = IF is_rate_limit_error(r_exc[r])
                   THEN [recorded EXCEPT ![r_now[r]] = @ + 1]
                   ELSE recorded
    /\ probe' = ProbeAfter(r)
    /\ last_probe' = LastProbeAfter(r, "failed")
    /\ r_now' = [r_now EXCEPT ![r] = 0]
    /\ r_exc' = [r_exc EXCEPT ![r] = None]
    /\ rpc' = [rpc EXCEPT ![r] = "idle"]
    /\ UNCHANGED <<failure_threshold, window_seconds, recovery_timeout, now,
                   requests_left, allowed>>
    /\ UNCHANGED nonBreakerVars

\* Time passes.
Tick ==
    /\ now < MaxTime
    /\ now' = now + 1
    /\ UNCHANGED <<failure_threshold, window_seconds, recovery_timeout, state,
                   failures, opened_until, requests_left, recorded, probe,
                   last_probe, rpc, r_now, r_exc, allowed>>
    /\ UNCHANGED nonBreakerVars

\* api_resilience.py:164-178: a breaker constructed with one of the given
\* configurations, and nrequests wrapper calls to come.
BreakerInit(thresholds, windows, recoveries, nrequests) ==
    /\ failure_threshold \in thresholds
    /\ window_seconds \in windows
    /\ recovery_timeout \in recoveries
    /\ state = "CLOSED"
    /\ failures = <<>>
    /\ opened_until = 0
    /\ now = 0
    /\ requests_left = nrequests
    /\ recorded = NoneRecorded
    /\ probe = NoRequest
    /\ last_probe = "none"
    /\ rpc = [r \in Requests |-> "idle"]
    /\ r_now = [r \in Requests |-> 0]
    /\ r_exc = [r \in Requests |-> None]
    /\ allowed = [r \in Requests |-> "None"]

BreakerNext ==
    \/ \E r \in Requests : AllowRequestEnter(r)
    \/ \E r \in Requests : AllowRequest(r)
    \/ \E r \in Requests : FuncReturn(r)
    \/ \E r \in Requests, exc \in Exceptions : FuncRaise(r, exc)
    \/ \E r \in Requests : RecordSuccess(r)
    \/ \E r \in Requests : RecordFailureEnter(r)
    \/ \E r \in Requests : RecordFailure(r)
    \/ Tick

-----------------------------------------------------------------------------
(* RequestScheduler (backend/services/request_scheduler.py): threads calling
   schedule, start and stop, and the threads running _worker *)

\* Bounds of the scheduler model: the number of schedule calls (when only
\* schedule is called, when start and stop are called too, under fair
\* scheduling, and around a shutdown) and how far the clock runs.
MaxSchedules == 3
MaxLifecycleSchedules == 2
MaxFairSchedules == 2
MaxShutdownSchedules == 3
MaxSchedTime == 1

\* The thread objects start() can create, and what schedule is called with.
\* The clock and the delays are in whole ticks; Offsets are the values of
\* random.uniform(-jitter, jitter) * max(0.1, delay_seconds or 1.0), which is
\* 0 when jitter is 0.
Workers == {1, 2}
Fns == {"f", "g"}
Priorities == {1, 2}
Keys == {"a"}
NoKey == "-"
Delays == {-1, 0, 1}
Offsets == {-1, 0, 1}

\* A task tuple (run_at, priority, fn, args, kwargs, key); args and kwargs are
\* empty. `accepted` is history: the schedule call that pushed it returned True.
Task(run_at, priority, fn, key, ok) ==
    [run_at |-> run_at, priority |-> priority, fn |-> fn, key |-> key,
     accepted |-> ok]
NoTask == Task(0, 0, "-", NoKey, FALSE)
NoCall == [key |-> NoKey, ret |-> "None"]

\* request_scheduler.py:44-46.
RunAt(t, delay_seconds, offset) ==
    t + (IF delay_seconds > 0 THEN delay_seconds ELSE 0) + offset

\* `k1 < k2` on the key strings: Keys has one string, not below itself.
KeyLess(k1, k2) == FALSE

\* The positional arguments of a queued task. They follow from its key: a
\* task keyed refresh:<cache key> was scheduled by cache_service.py:147-156 or
\* 226-235 as _refresh_analysis(symbol, include_set, cache_key, timeout),
\* where the cache key is stock_analysis:<symbol>:<include>:<timeout> and
\* include_set is parse_include_param(include) (analysis_include.py:4-18),
\* None for an empty include. Cache key "A" stands for symbol X with an empty
\* include, "B" for X with include=basic and "C" for Y with include=basic.
\* Every other task of the model is scheduled without arguments.
Args(sym, is_none, include_set, cache_key) ==
    [symbol |-> sym, include_is_none |-> is_none,
     include_set |-> include_set, cache_key |-> cache_key]
NoArgs == Args("-", FALSE, {}, "-")
TaskArgs(key) ==
    CASE key = "refresh:A" -> Args("X", TRUE, {}, "A")
      [] key = "refresh:B" -> Args("X", FALSE, {"profile"}, "B")
      [] key = "refresh:C" -> Args("Y", FALSE, {"profile"}, "C")
      [] OTHER -> NoArgs

\* `x < y` on two such argument tuples that differ: an empty tuple is below
\* any other, symbols and cache keys are ordered as strings, two sets by
\* proper inclusion, and None is not ordered against a set. (The timeout is
\* reached only when the cache keys are equal, hence the tuples.)
ArgsLess(x, y) ==
    CASE x = NoArgs -> "lt"
      [] y = NoArgs -> "ge"
      [] x.symbol # y.symbol ->
            IF x.symbol = "X" /\ y.symbol = "Y" THEN "lt" ELSE "ge"
      [] x.include_is_none # y.include_is_none -> "TypeError"
      [] x.include_set # y.include_set ->
            IF x.include_set \subseteq y.include_set THEN "lt" ELSE "ge"
      [] OTHER -> IF x.cache_key = "A" \/ (x.cache_key = "B" /\ y.cache_key = "C")
                  THEN "lt" ELSE "ge"

\* `a < b` on two task tuples, as Python compares tuples: the first position
\* where they differ decides. Functions are not ordered, nor is None against
\* a string, so a tie on (run_at, priority) can end in a TypeError.
TupleLess(a, b) ==
    CASE a.run_at # b.run_at -> IF a.run_at < b.run_at THEN "lt" ELSE "ge"
      [] a.priority # b.priority ->
            IF a.priority < b.priority THEN "lt" ELSE "ge"
      [] a.fn # b.fn -> "TypeError"
      [] TaskArgs(a.key) # TaskArgs(b.key) ->
            ArgsLess(TaskArgs(a.key), TaskArgs(b.key))
      [] a.key = b.key -> "ge"
      [] a.key = NoKey \/ b.key = NoKey -> "TypeError"
      [] OTHER -> IF KeyLess(a.key, b.key) THEN "lt" ELSE "ge"

\* The list with the items at positions i and j exchanged.
swap(heap, i, j) == [heap EXCEPT ![i] = heap[j], ![j] = heap[i]]

\* heapq's siftdown(heap, startpos, pos) as CPython's _heapq runs it, on a
\* list indexed from 1 (the parent of pos is pos \div 2): the item at pos is
\* exchanged with its parent while it is smaller. The result is the list as
\* the call leaves it and whether a comparison raised.
RECURSIVE siftdown(_, _, _)
siftdown(heap, startpos, pos) ==
    IF pos > startpos
    THEN LET parentpos == pos \div 2
             c == TupleLess(heap[pos], heap[parentpos])
         IN  CASE c = "TypeError" -> [heap |-> heap, err |-> TRUE]
               [] c = "lt" ->
                    siftdown(swap(heap, pos, parentpos), startpos, parentpos)
               [] OTHER -> [heap |-> heap, err |-> FALSE]
    ELSE [heap |-> heap, err |-> FALSE]

\* heapq's siftup(heap, pos): the item is exchanged with its smaller child
\* down to a leaf, then sifted down from there.
RECURSIVE siftup(_, _, _)
siftup(heap, startpos, pos) ==
    LET childpos == 2 * pos
        rightpos == childpos + 1
    IN  IF childpos <= Len(heap)
        THEN LET c == IF rightpos <= Len(heap)
                      THEN TupleLess(heap[childpos], heap[rightpos])
                      ELSE "lt"
                 child == IF c = "lt" THEN childpos ELSE rightpos
             IN  IF c = "TypeError"
                 THEN [heap |-> heap, err |-> TRUE]
                 ELSE siftup(swap(heap, pos, child), startpos, child)
        ELSE siftdown(heap, startpos, pos)

\* A faulty variant: the item is appended and never sifted into place.
heappushAppends(heap, item) == [heap |-> Append(heap, item), err |-> FALSE]

\* heapq.heappush(heap, item).
heappush(heap, item) == siftdown(Append(heap, item), 1, Len(heap) + 1)

\* heapq.heappop(heap): the list it leaves, the item it returns, and whether
\* it raised instead of returning.
heappop(heap) ==
    LET lastelt == heap[Len(heap)]
        rest == SubSeq(heap, 1, Len(heap) - 1)
    IN  IF rest = <<>>
        THEN [heap |-> rest, item |-> lastelt, err |-> FALSE]
        ELSE LET r == siftup([rest EXCEPT ![1] = lastelt], 1, 1)
             IN  [heap |-> r.heap, item |-> heap[1], err |-> r.err]

\* request_scheduler.py:17-23, the body of start(): nothing if _running,
\* else a new thread that begins at the top of _worker.
start ==
    /\ running \/ \E w \in Workers : wpc[w] = "dead"
    /\ IF running
       THEN UNCHANGED <<running, wpc>>
       ELSE /\ running' = TRUE
            /\ wpc' = [wpc EXCEPT
                         ![CHOOSE w \in Workers : wpc[w] = "dead"] = "loop"]

\* A call of start().
Start ==
    /\ start
    /\ UNCHANGED <<queue, inflight_keys, sched_now, schedules_left, spc,
                   last_call, crashed, task, caught>>
    /\ UNCHANGED nonSchedulerVars

\* request_scheduler.py:25-28, a call of stop().
Stop ==
    /\ running' = FALSE
    /\ UNCHANGED <<queue, inflight_keys, sched_now, schedules_left, spc,
                   last_call, crashed, wpc, task, caught>>
    /\ UNCHANGED nonSchedulerVars

\* request_scheduler.py:40: schedule begins with self.start(). One calling
\* thread is enough: a second caller's start() is a Start step.
ScheduleEnter ==
    /\ spc = "idle"
    /\ schedules_left > 0
    /\ start
    /\ schedules_left' = schedules_left - 1
    /\ spc' = "locked"
    /\ UNCHANGED <<queue, inflight_keys, sched_now, last_call, crashed, task,
                   caught>>
    /\ UNCHANGED nonSchedulerVars

\* request_scheduler.py:41-51, the locked block of schedule. A TypeError of
\* heappush leaves the list as the interrupted call left it and skips
\* lines 48-51.
ScheduleLocked(fn, priority, delay_seconds, offset, key) ==
    LET run_at == RunAt(sched_now, delay_seconds, offset)
        err == heappush(queue, Task(run_at, priority, fn, key, TRUE)).err
        r == heappush(queue, Task(run_at, priority, fn, key, ~err))
    IN  /\ spc = "locked"
        /\ run_at \in 0..MaxSchedTime
        /\ spc' = "idle"
        /\ IF key # NoKey /\ key \in inflight_keys
           THEN /\ last_call' = [key |-> key, ret |-> "False"]
                /\ UNCHANGED <<queue, inflight_keys>>
           ELSE /\ queue' = r.heap
                /\ inflight_keys' = IF ~err /\ key # NoKey
                                    THEN inflight_keys \cup {key}
                                    ELSE inflight_keys
                /\ last_call' = [key |-> key,
                                 ret |-> IF err THEN "TypeError" ELSE "True"]
        /\ UNCHANGED <<running, sched_now, schedules_left, crashed, wpc, task,
                       caught>>
        /\ UNCHANGED nonSchedulerVars

\* request_scheduler.py:55-66, one pass through the locked block of _worker
\* that does not end in condition.wait: the thread leaves the loop, or takes
\* the head of the heap once its run_at has come. (A pass that waits changes
\* nothing and starts over.) A TypeError of heappop ends the thread.
WorkerLoop(w) ==
    /\ wpc[w] = "loop"
    /\ IF ~running /\ queue = <<>>
       THEN /\ wpc' = [wpc EXCEPT ![w] = "dead"]
            /\ UNCHANGED <<queue, task, crashed>>
       ELSE /\ queue # <<>>
            /\ ~(queue[1].run_at > sched_now)
            /\ LET r == heappop(queue)
               IN  /\ queue' = r.heap
                   /\ IF r.err
                      THEN /\ wpc' = [wpc EXCEPT ![w] = "dead"]
                           /\ crashed' = TRUE
                           /\ UNCHANGED task
                      ELSE /\ wpc' = [wpc EXCEPT ![w] = "run"]
                           /\ task' = [task EXCEPT ![w] = queue[1]]
                           /\ UNCHANGED crashed
    /\ UNCHANGED <<inflight_keys, running, sched_now, schedules_left, spc,
                   last_call, caught>>
    /\ UNCHANGED nonSchedulerVars

\* request_scheduler.py:69: fn(*args, **kwargs) returns.
ActionReturn(w) ==
    /\ wpc[w] = "run"
    /\ wpc' = [wpc EXCEPT ![w] = "finally"]
    /\ UNCHANGED <<queue, inflight_keys, running, sched_now, schedules_left,
                   spc, last_call, crashed, task, caught>>
    /\ UNCHANGED nonSchedulerVars

\* A faulty variant: the exception of the action leaves _worker.
ActionRaiseEndsWorker(w) ==
    /\ wpc[w] = "run"
    /\ wpc' = [wpc EXCEPT ![w] = "dead"]
    /\ caught' = [caught EXCEPT ![w] = TRUE]
    /\ UNCHANGED <<queue, inflight_keys, running, sched_now, schedules_left,
                   spc, last_call, crashed, task>>
    /\ UNCHANGED nonSchedulerVars

\* request_scheduler.py:69-71: fn(*args, **kwargs) raises an Exception, which
\* is caught and printed.
ActionRaise(w) ==
    /\ wpc[w] = "run"
    /\ wpc' = [wpc EXCEPT ![w] = "finally"]
    /\ caught' = [caught EXCEPT ![w] = TRUE]
    /\ UNCHANGED <<queue, inflight_keys, running, sched_now, schedules_left,
                   spc, last_call, crashed, task>>
    /\ UNCHANGED nonSchedulerVars

\* request_scheduler.py:72-75, the finally block, and back to the top of the
\* loop.
Release(w) ==
    /\ wpc[w] = "finally"
    /\ inflight_keys' = IF task[w].key # NoKey
                        THEN inflight_keys \ {task[w].key}
                        ELSE inflight_keys
    /\ wpc' = [wpc EXCEPT ![w] = "loop"]
    /\ task' = [task EXCEPT ![w] = NoTask]
    /\ caught' = [caught EXCEPT ![w] = FALSE]
    /\ UNCHANGED <<queue, running, sched_now, schedules_left, spc, last_call,
                   crashed>>
    /\ UNCHANGED nonSchedulerVars

\* Time passes.
SchedTick ==
    /\ sched_now < MaxSchedTime
    /\ sched_now' = sched_now + 1
    /\ UNCHANGED <<queue, inflight_keys, running, schedules_left, spc,
                   last_call, crashed, wpc, task, caught>>
    /\ UNCHANGED nonSchedulerVars

\* request_scheduler.py:9-15 and 78: the module's scheduler as constructed,
\* and nschedules calls of schedule to come.
SchedulerInit(nschedules) ==
    /\ queue = <<>>
    /\ inflight_keys = {}
    /\ running = FALSE
    /\ sched_now = 0
    /\ schedules_left = nschedules
    /\ spc = "idle"
    /\ last_call = NoCall
    /\ crashed = FALSE
    /\ wpc = [w \in Workers |-> "dead"]
    /\ task = [w \in Workers |-> NoTask]
    /\ caught = [w \in Workers |-> FALSE]

\* The steps of a _worker thread.
WorkerSteps(w) ==
    \/ WorkerLoop(w)
    \/ ActionReturn(w)
    \/ ActionRaise(w)
    \/ Release(w)

\* The scheduler as the repository drives it: schedule_task is the only
\* entry point in use, stop is never called.
SchedulerNext ==
    \/ ScheduleEnter
    \/ \E fn \in Fns, priority \in Priorities, delay_seconds \in Delays,
          offset \in Offsets, key \in Keys \cup {NoKey} :
            ScheduleLocked(fn, priority, delay_seconds, offset, key)
    \/ \E w \in Workers : WorkerLoop(w)
    \/ \E w \in Workers : ActionReturn(w)
    \/ \E w \in Workers : ActionRaise(w)
    \/ \E w \in Workers : Release(w)
    \/ SchedTick

\* The scheduler with its whole interface in use: start and stop as well.
LifecycleNext ==
    \/ Start
    \/ Stop
    \/ ScheduleEnter
    \/ \E fn \in Fns, priority \in Priorities, delay_seconds \in Delays,
          offset \in Offsets, key \in Keys \cup {NoKey} :
            ScheduleLocked(fn, priority, delay_seconds, offset, key)
    \/ \E w \in Workers : WorkerLoop(w)
    \/ \E w \in Workers : ActionReturn(w)
    \/ \E w \in Workers : ActionRaise(w)
    \/ \E w \in Workers : Release(w)
    \/ SchedTick

-----------------------------------------------------------------------------
(* APICache (backend/utils/api_resilience.py) and, on top of a memory-only
   APICache, CacheService (backend/services/cache_service.py) with its Redis
   client and its PersistentCache (backend/services/persistent_cache.py).
   A call of get or set is one step. *)

\* Bounds of the cache model: the number of get/set calls (on an APICache
\* whose disk stays usable, on the same when every set stores one value with
\* one ttl, on the same when every ttl is zero or negative, on one whose
\* disk comes and goes, and on a CacheService) and how far the clock runs.
MaxCacheOps == 3
MaxLruOps == 4
MaxZeroTtlOps == 3
MaxDegradedOps == 2
MaxServiceOps == 2
MaxCacheTime == 2

\* What the cache is constructed and called with. Configs are the tier
\* configurations: memory only, disk only, memory and disk.
CacheKeys == {"A", "B", "C"}
CacheTtls == {1, 2}
NonPositiveTtls == {-1, 0}
MaxEntriesChoices == {1, 2}
Configs == {[memory |-> TRUE, disk |-> FALSE],
            [memory |-> FALSE, disk |-> TRUE],
            [memory |-> TRUE, disk |-> TRUE]}

\* Python values handed to set, written as their literals: a dict that JSON
\* represents as it is, and a tuple, which JSON has no notation for.
PyValues == {"{'a': 1}", "(1, 2)"}
NoValue == "None"
NoFile == [exists |-> FALSE]

\* json.dumps(value) / json.dump(value, f, default=str): the JSON text.
json_dumps(value) ==
    CASE value = "{'a': 1}" -> "{\"a\": 1}"
      [] value = "(1, 2)" -> "[1, 2]"
      [] value = "[1, 2]" -> "[1, 2]"

\* json.loads(text) / json.load(f): the Python value, written as its literal.
json_loads(text) ==
    CASE text = "{\"a\": 1}" -> "{'a': 1}"
      [] text = "[1, 2]" -> "[1, 2]"

\* An item of memory_cache: key -> (value, cached_at, ttl).
MemoryEntry(key, value, cached_at, ttl) ==
    [key |-> key, value |-> value, cached_at |-> cached_at, ttl |-> ttl]

\* A file {key}.json of cache_dir (api_resilience.py:346-351). cached_at and
\* ttl are numbers, which JSON writes and reads back exactly.
DiskFile(value, cached_at, ttl) ==
    [exists |-> TRUE, value |-> json_dumps(value), cached_at |-> cached_at,
     ttl |-> ttl]

\* What a get call did: the value returned, which counter of stats it raised
\* (hits: fresh/memory, disk_hits: fresh/disk, stale_hits: stale, misses) and
\* the memory_cache it leaves.
GetResult(mem, value, kind, tier) ==
    [memory |-> mem, value |-> value, kind |-> kind, tier |-> tier]

\* OrderedDict operations on memory_cache, a sequence from the oldest item to
\* the newest.
keys(mem) == {mem[i].key : i \in DOMAIN mem}
item(mem, key) == mem[CHOOSE i \in DOMAIN mem : mem[i].key = key]
delitem(mem, key) == SelectSeq(mem, LAMBDA e : e.key # key)
setitem(mem, e) ==
    IF e.key \in keys(mem)
    THEN [i \in DOMAIN mem |-> IF mem[i].key = e.key THEN e ELSE mem[i]]
    ELSE Append(mem, e)
move_to_end(mem, key) == Append(delitem(mem, key), item(mem, key))

\* A faulty variant: the newest items are dropped.
evict_newest(mem, limit) ==
    IF Len(mem) > limit THEN SubSeq(mem, 1, limit) ELSE mem

\* api_resilience.py:310-311.
RECURSIVE evict(_, _)
evict(mem, limit) == IF Len(mem) > limit THEN evict(Tail(mem), limit) ELSE mem

\* api_resilience.py:273, the freshness test of the memory tier.
memory_is_fresh(t, cached_at, ttl) == (t - cached_at) < ttl

\* A faulty variant: an entry whose age equals its ttl still counts as fresh.
disk_is_fresh_inclusive(t, cached_at, ttl) == (t - cached_at) <= ttl

\* api_resilience.py:334, the freshness test of the disk tier.
disk_is_fresh(t, cached_at, ttl) == (t - cached_at) < ttl

\* api_resilience.py:316-339, _load_from_disk: None when the file is missing,
\* cannot be read, or is expired and allow_stale is false.
load_from_disk(files, up, key, allow_stale, t) ==
    LET f == files[key]
    IN  IF up /\ f.exists
           /\ (disk_is_fresh(t, f.cached_at, f.ttl) \/ allow_stale)
        THEN [loaded |-> TRUE, value |-> json_loads(f.value),
              cached_at |-> f.cached_at, ttl |-> f.ttl,
              is_fresh |-> disk_is_fresh(t, f.cached_at, f.ttl)]
        ELSE [loaded |-> FALSE]

\* api_resilience.py:341-356, _save_to_disk: a write error is logged only.
save_to_disk(files, up, key, value, cached_at, ttl) ==
    IF up THEN [files EXCEPT ![key] = DiskFile(value, cached_at, ttl)]
    ELSE files

\* A faulty variant: a memory hit does not move the key to the end.
cache_get_keeps_order(mem, files, up, em, ed, key, allow_stale, t) ==
    LET hit == em /\ key \in keys(mem)
        e == item(mem, key)
        mem1 == IF hit THEN delitem(mem, key) ELSE mem
        loaded == load_from_disk(files, up, key, allow_stale, t)
    IN  IF hit /\ memory_is_fresh(t, e.cached_at, e.ttl)
        THEN GetResult(mem, e.value, "fresh", "memory")
        ELSE IF hit /\ allow_stale
        THEN GetResult(mem, e.value, "stale", "memory")
        ELSE IF ed /\ loaded.loaded
        THEN GetResult(IF em
                       THEN setitem(mem1, MemoryEntry(key, loaded.value,
                                                loaded.cached_at, loaded.ttl))
                       ELSE mem1,
                       loaded.value,
                       IF loaded.is_fresh THEN "fresh" ELSE "stale", "disk")
        ELSE GetResult(mem1, NoValue, "miss", "none")

\* api_resilience.py:265-300, APICache.get at clock reading t.
cache_get(mem, files, up, em, ed, key, allow_stale, t) ==
    LET hit == em /\ key \in keys(mem)
        e == item(mem, key)
        mem1 == IF hit THEN delitem(mem, key) ELSE mem
        loaded == load_from_disk(files, up, key, allow_stale, t)
    IN  IF hit /\ memory_is_fresh(t, e.cached_at, e.ttl)
        THEN GetResult(move_to_end(mem, key), e.value, "fresh", "memory")
        ELSE IF hit /\ allow_stale
        THEN GetResult(move_to_end(mem, key), e.value, "stale", "memory")
        ELSE IF ed /\ loaded.loaded
        THEN GetResult(IF em
                       THEN setitem(mem1, MemoryEntry(key, loaded.value,
                                                loaded.cached_at, loaded.ttl))
                       ELSE mem1,
                       loaded.value,
                       IF loaded.is_fresh THEN "fresh" ELSE "stale", "disk")
        ELSE GetResult(mem1, NoValue, "miss", "none")

\* api_resilience.py:306-311, the memory half of APICache.set.
cache_set_memory(mem, em, limit, key, value, ttl, t) ==
    IF em
    THEN evict(move_to_end(setitem(mem, MemoryEntry(key, value, t, ttl)), key),
               limit)
    ELSE mem

\* api_resilience.py:312-313, the disk half of APICache.set.
cache_set_disk(files, up, ed, key, value, ttl, t) ==
    IF ed THEN save_to_disk(files, up, key, value, t, ttl) ELSE files

\* History: the keys of memory_cache from the least to the most recently
\* used, a use being a set, a get answered by the memory tier, and a
\* promotion from a lower tier.
Touch(rec, key) == Append(SelectSeq(rec, LAMBDA k : k # key), key)
Restrict(rec, ks) == SelectSeq(rec, LAMBDA k : k \in ks)
RecencyAfter(rec, mem, key) ==
    Restrict(IF key \in keys(mem) THEN Touch(rec, key) ELSE rec, keys(mem))

\* History: the latest call, as long as no time has passed and no tier has
\* changed its availability since.
NoOp == [op |-> "none"]
GetOp(op, key, allow_stale, value, kind, tier, raised) ==
    [op |-> op, key |-> key, allow_stale |-> allow_stale, value |-> value,
     kind |-> kind, tier |-> tier, raised |-> raised]
SetOp(op, key, value, ttl, evicted, raised) ==
    [op |-> op, key |-> key, value |-> value, ttl |-> ttl,
     evicted |-> evicted, raised |-> raised]

\* api_resilience.py:265-300, a call of APICache.get(key, allow_stale).
Get(key, allow_stale) ==
    LET r == cache_get(memory_cache, disk_files, disk_ok, enable_memory,
                       enable_disk, key, allow_stale, cache_now)
    IN  /\ cache_ops_left > 0
        /\ cache_ops_left' = cache_ops_left - 1
        /\ memory_cache' = r.memory
        /\ recency' = RecencyAfter(recency, r.memory, key)
        /\ last_op' = GetOp("get", key, allow_stale, r.value, r.kind, r.tier,
                            FALSE)
        /\ UNCHANGED <<disk_files, cache_now, enable_memory, enable_disk,
                       max_entries, disk_ok, redis_enabled, redis_up,
                       redis_store, sqlite_ok, sqlite_store>>
        /\ UNCHANGED nonCacheVars

\* api_resilience.py:302-314, a call of APICache.set(key, value, ttl).
Set(key, value, ttl) ==
    LET mem == cache_set_memory(memory_cache, enable_memory, max_entries,
                                key, value, ttl, cache_now)
    IN  /\ cache_ops_left > 0
        /\ cache_ops_left' = cache_ops_left - 1
        /\ memory_cache' = mem
        /\ disk_files' = cache_set_disk(disk_files, disk_ok, enable_disk,
                                       key, value, ttl, cache_now)
        /\ recency' = RecencyAfter(recency, mem, key)
        /\ last_op' = SetOp("set", key, value, ttl,
                            (keys(memory_cache) \cup {key}) \ keys(mem), FALSE)
        /\ UNCHANGED <<cache_now, enable_memory, enable_disk, max_entries,
                       disk_ok, redis_enabled, redis_up, redis_store,
                       sqlite_ok, sqlite_store>>
        /\ UNCHANGED nonCacheVars

\* Time passes.
CacheTick ==
    /\ cache_now < MaxCacheTime
    /\ cache_now' = cache_now + 1
    /\ last_op' = NoOp
    /\ UNCHANGED <<memory_cache, disk_files, enable_memory, enable_disk,
                   max_entries, disk_ok, cache_ops_left, recency,
                   redis_enabled, redis_up, redis_store, sqlite_ok,
                   sqlite_store>>
    /\ UNCHANGED nonCacheVars

\* cache_dir becomes unreadable and unwritable, or usable again.
DiskChanges ==
    /\ enable_disk
    /\ disk_ok' = ~disk_ok
    /\ last_op' = NoOp
    /\ UNCHANGED <<memory_cache, disk_files, cache_now, enable_memory,
                   enable_disk, max_entries, cache_ops_left, recency,
                   redis_enabled, redis_up, redis_store, sqlite_ok,
                   sqlite_store>>
    /\ UNCHANGED nonCacheVars

\* cache_service.py:22, _MEMORY_TTL_SECONDS by default.
MEMORY_TTL_SECONDS == 300

\* cache_service.py:85-86, what CacheService stores in every tier.
wrap(value, ttl, t) == [cached_at |-> t, ttl |-> ttl, data |-> value]

\* json.dumps and json.loads of such a dict.
wrapped_dumps(wrapped) == [wrapped EXCEPT !.data = json_dumps(wrapped.data)]
wrapped_loads(text) == [text EXCEPT !.data = json_loads(text.data)]

\* redis: client.get(key), nothing once the expiry set by setex has come.
redis_get(store, key, t) ==
    IF store[key].exists /\ t < store[key].expires_at
    THEN store[key] ELSE NoFile

\* cache_service.py:50-64 and 93-99, a call of CacheService.get_with_metadata:
\* the memory tier, then Redis if it answered the ping in __init__, then the
\* SQLite store. client.get and PersistentCache.get raise when their store is
\* not reachable.
ServiceGet(key) ==
    LET r == cache_get(memory_cache, disk_files, disk_ok, enable_memory,
                       enable_disk, key, FALSE, cache_now)
        data == redis_get(redis_store, key, cache_now)
        row == sqlite_store[key]
        persistent ==
            IF ~sqlite_ok
            THEN GetOp("service_get", key, FALSE, NoValue, "miss", "none", TRUE)
            ELSE IF row.exists
            THEN GetOp("service_get", key, FALSE,
                       wrapped_loads(row.value).data, "hit", "sqlite", FALSE)
            ELSE GetOp("service_get", key, FALSE, NoValue, "miss", "none",
                       FALSE)
    IN  /\ cache_ops_left > 0
        /\ cache_ops_left' = cache_ops_left - 1
        /\ memory_cache' = r.memory
        /\ recency' = RecencyAfter(recency, r.memory, key)
        /\ last_op' =
            IF r.kind # "miss"
            THEN GetOp("service_get", key, FALSE, r.value.data, r.kind,
                       r.tier, FALSE)
            ELSE IF ~redis_enabled THEN persistent
            ELSE IF ~redis_up
            THEN GetOp("service_get", key, FALSE, NoValue, "miss", "none", TRUE)
            ELSE IF data.exists
            THEN GetOp("service_get", key, FALSE,
                       wrapped_loads(data.value).data, "hit", "redis", FALSE)
            ELSE persistent
        /\ UNCHANGED <<disk_files, cache_now, enable_memory, enable_disk,
                       max_entries, disk_ok, redis_enabled, redis_up,
                       redis_store, sqlite_ok, sqlite_store>>
        /\ UNCHANGED nonCacheVars

\* cache_service.py:66-74, a call of CacheService.set: the memory tier, then
\* Redis if enabled, then the SQLite store; client.setex and
\* PersistentCache.set raise when their store is not reachable, and what
\* follows them is not run.
ServiceSet(key, value, timeout) ==
    LET memory_ttl == IF MEMORY_TTL_SECONDS < timeout
                      THEN MEMORY_TTL_SECONDS ELSE timeout
        wrapped == wrap(value, timeout, cache_now)
        mem == cache_set_memory(memory_cache, enable_memory, max_entries,
                                key, wrapped, memory_ttl, cache_now)
        redis_raises == redis_enabled /\ ~redis_up
        sqlite_raises == ~redis_raises /\ ~sqlite_ok
    IN  /\ cache_ops_left > 0
        /\ cache_ops_left' = cache_ops_left - 1
        /\ memory_cache' = mem
        /\ disk_files' = cache_set_disk(disk_files, disk_ok, enable_disk,
                                       key, wrapped, memory_ttl, cache_now)
        /\ recency' = RecencyAfter(recency, mem, key)
        /\ redis_store' =
            IF redis_enabled /\ redis_up
            THEN [redis_store EXCEPT ![key] =
                    [exists |-> TRUE, value |-> wrapped_dumps(wrapped),
                     expires_at |-> cache_now + timeout]]
            ELSE redis_store
        /\ sqlite_store' =
            IF ~redis_raises /\ sqlite_ok
            THEN [sqlite_store EXCEPT ![key] =
                    [exists |-> TRUE, value |-> wrapped_dumps(wrapped),
                     cached_at |-> cache_now,
                     expires_at |-> cache_now + timeout]]
            ELSE sqlite_store
        /\ last_op' = SetOp("service_set", key, value, timeout,
                            (keys(memory_cache) \cup {key}) \ keys(mem),
                            redis_raises \/ sqlite_raises)
        /\ UNCHANGED <<cache_now, enable_memory, enable_disk, max_entries,
                       disk_ok, redis_enabled, redis_up, sqlite_ok>>
        /\ UNCHANGED nonCacheVars

\* The Redis server becomes unreachable, or reachable again.
RedisChanges ==
    /\ redis_up' = ~redis_up
    /\ last_op' = NoOp
    /\ UNCHANGED <<memory_cache, disk_files, cache_now, enable_memory,
                   enable_disk, max_entries, disk_ok, cache_ops_left, recency,
                   redis_enabled, redis_store, sqlite_ok,
                   sqlite_store>>
    /\ UNCHANGED nonCacheVars

\* The SQLite file becomes unusable, or usable again.
SqliteChanges ==
    /\ sqlite_ok' = ~sqlite_ok
    /\ last_op' = NoOp
    /\ UNCHANGED <<memory_cache, disk_files, cache_now, enable_memory,
                   enable_disk, max_entries, disk_ok, cache_ops_left, recency,
                   redis_enabled, redis_up, redis_store,
                   sqlite_store>>
    /\ UNCHANGED nonCacheVars

\* api_resilience.py:238-263: an APICache constructed with one of the given
\* tier configurations and sizes, empty, and nops calls to come; and, on top
\* of it (cache_service.py:24-44), a CacheService whose __init__ found Redis
\* in one of redis_states, with an empty SQLite store.
CacheInit(configs, sizes, nops, redis_states) ==
    /\ \E c \in configs : enable_memory = c.memory /\ enable_disk = c.disk
    /\ max_entries \in sizes
    /\ memory_cache = <<>>
    /\ disk_files = [k \in CacheKeys |-> NoFile]
    /\ disk_ok = TRUE
    /\ cache_now = 0
    /\ cache_ops_left = nops
    /\ recency = <<>>
    /\ last_op = NoOp
    /\ redis_up \in redis_states
    /\ redis_enabled = redis_up
    /\ redis_store = [k \in CacheKeys |-> NoFile]
    /\ sqlite_ok = TRUE
    /\ sqlite_store = [k \in CacheKeys |-> NoFile]

CacheNext ==
    \/ \E key \in CacheKeys, allow_stale \in BOOLEAN : Get(key, allow_stale)
    \/ \E key \in CacheKeys, value \in PyValues, ttl \in CacheTtls :
            Set(key, value, ttl)
    \/ CacheTick

\* Calls that differ in their keys only.
LruNext ==
    \/ \E key \in CacheKeys, allow_stale \in BOOLEAN : Get(key, allow_stale)
    \/ \E key \in CacheKeys : Set(key, "{'a': 1}", 2)
    \/ CacheTick

\* Calls whose ttl is zero or negative.
ZeroTtlNext ==
    \/ \E key \in CacheKeys, allow_stale \in BOOLEAN : Get(key, allow_stale)
    \/ \E key \in CacheKeys, value \in PyValues, ttl \in NonPositiveTtls :
            Set(key, value, ttl)
    \/ CacheTick

DegradedCacheNext ==
    \/ \E key \in CacheKeys, allow_stale \in BOOLEAN : Get(key, allow_stale)
    \/ \E key \in CacheKeys, value \in PyValues, ttl \in CacheTtls :
            Set(key, value, ttl)
    \/ CacheTick
    \/ DiskChanges

CacheServiceNext ==
    \/ \E key \in CacheKeys : ServiceGet(key)
    \/ \E key \in CacheKeys, value \in PyValues, timeout \in CacheTtls :
            ServiceSet(key, value, timeout)
    \/ CacheTick
    \/ RedisChanges
    \/ SqliteChanges

\* api_resilience.py:381: the module's _api_cache, memory and disk, unused.
API_CACHE_MAX_ENTRIES == 5000
CacheIdle ==
    CacheInit({[memory |-> TRUE, disk |-> TRUE]}, {API_CACHE_MAX_ENTRIES}, 0,
              {FALSE})

-----------------------------------------------------------------------------
(* RateLimiter (backend/utils/api_resilience.py): threads calling wait on one
   shared instance. Times are whole ticks; jitter is carried as the product
   jitter * min_interval, and random.uniform draws a whole number of ticks. *)

\* Bounds of the limiter model: the intervals tried, the number of wait calls
\* and how far the clock runs past its first reading.
MaxInterval == 3
MaxWaits == 3
MaxLimiterTime == 5

\* time.time() at the first call: seconds since 1970, beyond any interval.
Epoch == 10

LimiterThreads == {1, 2}
NoThread == 0

\* api_resilience.py:73, the values random.uniform(-jitter, jitter) *
\* min_interval takes; 0.0 when jitter is not positive (l.71-72).
JitterDeltas == IF jitter_span > 0 THEN (0 - jitter_span)..jitter_span ELSE {0}

\* A faulty variant: the jitter is applied twice.
sleep_for_double_jitter(wait_time, jitter_delta) ==
    IF wait_time + 2 * jitter_delta > 0 THEN wait_time + 2 * jitter_delta
    ELSE 0

\* api_resilience.py:74: max(0.0, wait_time + jitter_delta).
sleep_for(wait_time, jitter_delta) ==
    IF wait_time + jitter_delta > 0 THEN wait_time + jitter_delta ELSE 0

\* History: a wait call that returned: its thread, when it returned and how
\* long it slept. The two latest returns are kept.
Return(t, at, slept) == [thread |-> t, at |-> at, slept |-> slept]
LastTwo(rs) == IF Len(rs) > 2 THEN Tail(rs) ELSE rs

\* api_resilience.py:66-75: the thread takes the lock, reads the clock and
\* starts to sleep if the interval has not elapsed.
WaitEnter(t, jitter_delta) ==
    LET elapsed == limiter_now - limiter_last_call
        wait_time == min_interval - elapsed
    IN  /\ lpc[t] = "idle"
        /\ waits_left > 0
        /\ limiter_lock = NoThread
        /\ waits_left' = waits_left - 1
        /\ limiter_lock' = t
        /\ entered_at' = [entered_at EXCEPT ![t] = limiter_now]
        /\ wake_at' = [wake_at EXCEPT ![t] =
               IF wait_time > 0
               THEN limiter_now + sleep_for(wait_time, jitter_delta)
               ELSE limiter_now]
        /\ lpc' = [lpc EXCEPT ![t] = "sleep"]
        /\ UNCHANGED <<min_interval, jitter_span, limiter_last_call,
                       limiter_now, returns>>
        /\ UNCHANGED nonLimiterVars

\* api_resilience.py:75-76: the sleep is over (time.sleep never returns
\* early), the thread stamps _last_call, releases the lock and returns.
WaitReturn(t) ==
    /\ lpc[t] = "sleep"
    /\ limiter_now >= wake_at[t]
    /\ limiter_last_call' = limiter_now
    /\ limiter_lock' = NoThread
    /\ returns' = LastTwo(Append(returns,
                         Return(t, limiter_now, wake_at[t] - entered_at[t])))
    /\ lpc' = [lpc EXCEPT ![t] = "idle"]
    /\ wake_at' = [wake_at EXCEPT ![t] = 0]
    /\ entered_at' = [entered_at EXCEPT ![t] = 0]
    /\ UNCHANGED <<min_interval, jitter_span, limiter_now, waits_left>>
    /\ UNCHANGED nonLimiterVars

\* Time passes.
LimiterTick ==
    /\ limiter_now < Epoch + MaxLimiterTime
    /\ limiter_now' = limiter_now + 1
    /\ UNCHANGED <<min_interval, jitter_span, limiter_last_call, limiter_lock,
                   waits_left, returns, lpc, entered_at, wake_at>>
    /\ UNCHANGED nonLimiterVars

\* api_resilience.py:59-63: a limiter constructed with one of the intervals
\* and a jitter of at most 1, and nwaits wait calls to come.
LimiterInit(intervals, nwaits) ==
    /\ min_interval \in intervals
    /\ jitter_span \in 0..min_interval
    /\ limiter_last_call = 0
    /\ limiter_lock = NoThread
    /\ limiter_now = Epoch
    /\ waits_left = nwaits
    /\ returns = <<>>
    /\ lpc = [t \in LimiterThreads |-> "idle"]
    /\ entered_at = [t \in LimiterThreads |-> 0]
    /\ wake_at = [t \in LimiterThreads |-> 0]

LimiterNext ==
    \/ \E t \in LimiterThreads, jitter_delta \in JitterDeltas :
            WaitEnter(t, jitter_delta)
    \/ \E t \in LimiterThreads : WaitReturn(t)
    \/ LimiterTick

\* api_resilience.py:59: a RateLimiter with the default arguments, unused.
LimiterIdle ==
    /\ LimiterInit({1}, 0)
    /\ jitter_span = 0

-----------------------------------------------------------------------------
(* retry_with_backoff over a RetryCoordinator and the request budget
   (backend/utils/api_resilience.py): caller threads, each inside its own
   request_budget context, calling wrapped functions. *)

\* Bounds of the retry model: the configurations tried, the number of
\* wrapper calls that arrive in a run and the clock's range.
MaxRetries == 2
MaxRetryWindow == 2
MaxAttempts == 2
MaxBudget == 3
MaxRetryCalls == 2
MaxBudgetCalls == 3
MaxAttemptCalls == 2
MaxRetryTime == 2

RetryCallers == {1, 2}
\* What retry_key_fn returns; NoKey stands for None (no retry_key_fn).
RetryKeys == {"x", "y"}

\* What the wrapped function raises: one throttling signal, one other error.
RetryExceptions ==
    { [status |-> 429, message |-> "Client Error for url"],
      [status |-> 500, message |-> "Server Error for url"] }

\* api_resilience.py:423, the exception of an exhausted request budget.
BudgetExhausted ==
    [status |-> NoStatus, message |-> "Request retry budget exhausted"]

\* api_resilience.py:431, random.uniform(*rate_limit_cooldown_range), and
\* l.448-451, the backoff sleep, in ticks.
Cooldowns == {1, 2}
Backoff == 1

\* api_resilience.py:91-96, RetryCoordinator._prune.
RECURSIVE retry_prune(_, _, _)
retry_prune(dq, t, window) ==
    IF dq # <<>> /\ (t - Head(dq)) > window
    THEN retry_prune(Tail(dq), t, window)
    ELSE dq

\* api_resilience.py:120-124, RetryCoordinator.in_cooldown.
in_cooldown(cds, key, t) == t < cds[key]

\* api_resilience.py:112-118, RetryCoordinator.set_cooldown.
set_cooldown(cds, key, seconds, t) ==
    IF t + seconds > cds[key] THEN [cds EXCEPT ![key] = t + seconds] ELSE cds

\* A faulty variant: the budget allows one attempt more.
consume_one_more(attempts, limit) ==
    IF attempts > limit
    THEN [ok |-> FALSE, attempts |-> attempts]
    ELSE [ok |-> TRUE, attempts |-> attempts + 1]

\* api_resilience.py:139-143, RequestBudget.consume.
consume(attempts, limit) ==
    IF attempts >= limit
    THEN [ok |-> FALSE, attempts |-> attempts]
    ELSE [ok |-> TRUE, attempts |-> attempts + 1]

\* The exception the wrapper raises for the one it caught last
\* (api_resilience.py:463).
ReRaised(exc) ==
    IF exc = BudgetExhausted THEN "RetryBudgetExceeded" ELSE "Exception"

\* A faulty variant: the first failure of the call is raised again.
reraise_first(last, raised) == IF raised # <<>> THEN Head(raised) ELSE last

\* api_resilience.py:463, `raise last_exception`: the exception object the
\* call ends with, given the last one caught and all that func raised.
reraise(last, raised) == last

\* The caller's locals once its call is over: it returned, or raised a new
\* exception (exc = None), or raised exc again.
CallOver(c, how, exc) ==
    /\ bpc' = [bpc EXCEPT ![c] = "idle"]
    /\ call_result' = [call_result EXCEPT ![c] = how]
    /\ reraised' = [reraised EXCEPT ![c] = exc]
    /\ attempt' = [attempt EXCEPT ![c] = 0]
    /\ retry_key' = [retry_key EXCEPT ![c] = NoKey]
    /\ last_exception' = [last_exception EXCEPT ![c] = None]
    /\ back_at' = [back_at EXCEPT ![c] = 0]

\* api_resilience.py:411-419: the wrapper is entered; it raises
\* RateLimitError at once when the key is in cooldown.
RetryEnter(c, key) ==
    /\ bpc[c] = "idle"
    /\ retry_calls_left > 0
    /\ retry_calls_left' = retry_calls_left - 1
    /\ IF key # NoKey /\ in_cooldown(cooldowns, key, retry_now)
       THEN CallOver(c, "RateLimitError", None)
       ELSE /\ bpc' = [bpc EXCEPT ![c] = "try"]
            /\ attempt' = [attempt EXCEPT ![c] = 1]
            /\ retry_key' = [retry_key EXCEPT ![c] = key]
            /\ call_result' = [call_result EXCEPT ![c] = "none"]
            /\ reraised' = [reraised EXCEPT ![c] = None]
            /\ UNCHANGED <<last_exception, back_at>>
    /\ func_failures' = [func_failures EXCEPT ![c] = <<>>]
    /\ UNCHANGED <<max_retries, retry_window_seconds, retry_timestamps,
                   cooldowns, retry_now, max_attempts, retry_on_rate_limit,
                   budget_max_attempts, budget_attempts, invocations>>
    /\ UNCHANGED nonRetryVars

\* api_resilience.py:420-428: one attempt. The budget is consumed; when it is
\* exhausted RetryBudgetExceeded is raised inside the try block, otherwise
\* the wrapped function is called and returns (raises = None) or raises.
Try(c, raises) ==
    LET b == consume(budget_attempts[c], budget_max_attempts)
    IN  /\ bpc[c] = "try"
        /\ budget_attempts' = [budget_attempts EXCEPT ![c] = b.attempts]
        /\ IF ~b.ok
           THEN /\ last_exception' = [last_exception EXCEPT ![c] = BudgetExhausted]
                /\ bpc' = [bpc EXCEPT ![c] = "except"]
                /\ UNCHANGED <<invocations, attempt, retry_key, back_at,
                               call_result, func_failures, reraised>>
           ELSE /\ invocations' = [invocations EXCEPT ![c] = @ + 1]
                /\ IF raises = None
                   THEN /\ CallOver(c, "returned", None)
                        /\ UNCHANGED func_failures
                   ELSE /\ last_exception' = [last_exception EXCEPT ![c] = raises]
                        /\ func_failures' = [func_failures EXCEPT ![c] = Append(@, raises)]
                        /\ bpc' = [bpc EXCEPT ![c] = "except"]
                        /\ UNCHANGED <<attempt, retry_key, back_at, call_result,
                                       reraised>>
        /\ UNCHANGED <<max_retries, retry_window_seconds, retry_timestamps,
                       cooldowns, retry_now, max_attempts, retry_on_rate_limit,
                       retry_calls_left, budget_max_attempts>>
        /\ UNCHANGED nonRetryVars

\* api_resilience.py:428-443 and 459-463: the except clause, which catches
\* every Exception. A throttling signal sets the key's cooldown and ends the
\* call, or sleeps for the cooldown; another exception leads to a retry if
\* attempts are left and can_retry allows it, and is raised again otherwise.
Except(c, cooldown) ==
    LET e == last_exception[c]
        key == retry_key[c]
        pruned == [retry_timestamps EXCEPT ![key] =
                       retry_prune(@, retry_now, retry_window_seconds)]
    IN  /\ bpc[c] = "except"
        /\ IF is_rate_limit_error(e)
           THEN /\ cooldowns' = IF key # NoKey
                                THEN set_cooldown(cooldowns, key, cooldown,
                                                  retry_now)
                                ELSE cooldowns
                /\ IF retry_on_rate_limit /\ attempt[c] < max_attempts
                   THEN /\ bpc' = [bpc EXCEPT ![c] = "sleep"]
                        /\ back_at' = [back_at EXCEPT ![c] = retry_now + cooldown]
                        /\ UNCHANGED <<attempt, retry_key, last_exception,
                                       call_result, reraised>>
                   ELSE CallOver(c, "RateLimitError", None)
                /\ UNCHANGED retry_timestamps
           ELSE IF attempt[c] < max_attempts
           THEN IF key # NoKey
                THEN /\ retry_timestamps' = pruned
                     /\ IF Len(pruned[key]) < max_retries
                        THEN /\ bpc' = [bpc EXCEPT ![c] = "record_retry"]
                             /\ UNCHANGED <<attempt, retry_key, last_exception,
                                            back_at, call_result, reraised>>
                        ELSE CallOver(c, "RetryBudgetExceeded", None)
                     /\ UNCHANGED cooldowns
                ELSE /\ bpc' = [bpc EXCEPT ![c] = "sleep"]
                     /\ back_at' = [back_at EXCEPT ![c] = retry_now + Backoff]
                     /\ UNCHANGED <<attempt, retry_key, last_exception,
                                    call_result, reraised, retry_timestamps,
                                    cooldowns>>
           ELSE /\ CallOver(c, ReRaised(e), reraise(e, func_failures[c]))
                /\ UNCHANGED <<retry_timestamps, cooldowns>>
        /\ UNCHANGED <<max_retries, retry_window_seconds, retry_now,
                       max_attempts, retry_on_rate_limit, retry_calls_left,
                       budget_max_attempts, budget_attempts, invocations,
                       func_failures>>
        /\ UNCHANGED nonRetryVars

\* api_resilience.py:444-451 with 105-110: record_retry takes the lock again,
\* then the backoff sleep starts.
RecordRetry(c) ==
    /\ bpc[c] = "record_retry"
    /\ retry_timestamps' =
           [retry_timestamps EXCEPT ![retry_key[c]] =
                retry_prune(Append(@, retry_now), retry_now,
                            retry_window_seconds)]
    /\ bpc' = [bpc EXCEPT ![c] = "sleep"]
    /\ back_at' = [back_at EXCEPT ![c] = retry_now + Backoff]
    /\ UNCHANGED <<max_retries, retry_window_seconds, cooldowns, retry_now,
                   max_attempts, retry_on_rate_limit, retry_calls_left,
                   budget_max_attempts, budget_attempts, invocations, attempt,
                   retry_key, last_exception, call_result, func_failures,
                   reraised>>
    /\ UNCHANGED nonRetryVars

\* api_resilience.py:437-438 and 451-458: the sleep is over, the loop goes on
\* with the next attempt.
RetryWake(c) ==
    /\ bpc[c] = "sleep"
    /\ retry_now >= back_at[c]
    /\ bpc' = [bpc EXCEPT ![c] = "try"]
    /\ attempt' = [attempt EXCEPT ![c] = @ + 1]
    /\ back_at' = [back_at EXCEPT ![c] = 0]
    /\ UNCHANGED <<max_retries, retry_window_seconds, retry_timestamps,
                   cooldowns, retry_now, max_attempts, retry_on_rate_limit,
                   retry_calls_left, budget_max_attempts, budget_attempts,
                   invocations, retry_key, last_exception, call_result,
                   func_failures, reraised>>
    /\ UNCHANGED nonRetryVars

\* Time passes.
RetryTick ==
    /\ retry_now < MaxRetryTime
    /\ retry_now' = retry_now + 1
    /\ UNCHANGED <<max_retries, retry_window_seconds, retry_timestamps,
                   cooldowns, max_attempts, retry_on_rate_limit,
                   retry_calls_left, budget_max_attempts, budget_attempts,
                   invocations, bpc, attempt, retry_key, last_exception,
                   back_at, call_result, func_failures, reraised>>
    /\ UNCHANGED nonRetryVars

\* api_resilience.py:84-89, 135-137 and 384-393: a coordinator, a decorator
\* and a request budget per caller, each with one of the given arguments, and
\* ncalls wrapper calls to come.
RetryInit(retries, windows, attempts, on_rate_limit, budgets, ncalls) ==
    /\ max_retries \in retries
    /\ retry_window_seconds \in windows
    /\ retry_timestamps = [k \in RetryKeys \cup {NoKey} |-> <<>>]
    /\ cooldowns = [k \in RetryKeys \cup {NoKey} |-> 0]
    /\ retry_now = 0
    /\ max_attempts \in attempts
    /\ retry_on_rate_limit \in on_rate_limit
    /\ retry_calls_left = ncalls
    /\ budget_max_attempts \in budgets
    /\ budget_attempts = [c \in RetryCallers |-> 0]
    /\ invocations = [c \in RetryCallers |-> 0]
    /\ bpc = [c \in RetryCallers |-> "idle"]
    /\ attempt = [c \in RetryCallers |-> 0]
    /\ retry_key = [c \in RetryCallers |-> NoKey]
    /\ last_exception = [c \in RetryCallers |-> None]
    /\ back_at = [c \in RetryCallers |-> 0]
    /\ call_result = [c \in RetryCallers |-> "none"]
    /\ func_failures = [c \in RetryCallers |-> <<>>]
    /\ reraised = [c \in RetryCallers |-> None]

\* The calls of the given callers.
RetrySteps(callers) ==
    \/ \E c \in callers, key \in RetryKeys \cup {NoKey} : RetryEnter(c, key)
    \/ \E c \in callers, raises \in RetryExceptions \cup {None} :
            Try(c, raises)
    \/ \E c \in callers, cooldown \in Cooldowns : Except(c, cooldown)
    \/ \E c \in callers : RecordRetry(c)
    \/ \E c \in callers : RetryWake(c)
    \/ RetryTick

\* Callers racing on the coordinator.
RetryNext == RetrySteps(RetryCallers)

\* One caller making its calls one after the other.
BudgetNext == RetrySteps({1})

\* What the wrapped function raises when two of its failures must be told
\* apart: a second error that is no throttling signal.
AttemptExceptions ==
    RetryExceptions \cup {[status |-> NoStatus, message |-> "Read timed out"]}

\* Time passes, also beyond the clock's range while a caller sleeps.
RetryClock ==
    /\ \/ retry_now < MaxRetryTime
       \/ \E c \in RetryCallers : bpc[c] = "sleep" /\ back_at[c] > retry_now
    /\ retry_now' = retry_now + 1
    /\ UNCHANGED <<max_retries, retry_window_seconds, retry_timestamps,
                   cooldowns, max_attempts, retry_on_rate_limit,
                   retry_calls_left, budget_max_attempts, budget_attempts,
                   invocations, bpc, attempt, retry_key, last_exception,
                   back_at, call_result, func_failures, reraised>>
    /\ UNCHANGED nonRetryVars

\* The steps of caller c inside the wrapper.
InsideWrapper(c) ==
    \/ \E raises \in AttemptExceptions \cup {None} : Try(c, raises)
    \/ \E cooldown \in Cooldowns : Except(c, cooldown)
    \/ RecordRetry(c)
    \/ RetryWake(c)

\* One caller whose functions fail in more than one way, with every sleep
\* coming to its end.
AttemptsNext ==
    \/ \E key \in RetryKeys \cup {NoKey} : RetryEnter(1, key)
    \/ InsideWrapper(1)
    \/ RetryClock

\* api_resilience.py:127 and 384-393: the module's _retry_coordinator and the
\* decorator's defaults, never called.
RetryIdle == RetryInit({2}, {300}, {2}, {FALSE}, {3}, 0)

-----------------------------------------------------------------------------
(* cached_api_call.wrapper (backend/utils/api_resilience.py) as composed by
   robust_api_call: a cache lookup in _api_cache, the breaker's verdict, the
   wrapped chain retry_with_backoff(rate_limited(func)) and the stale
   fallback. A wrapper call is one step; it works on the APICache and the
   CircuitBreaker modelled above and reads the cache's clock. *)

\* Bounds of the façade model: the number of wrapper calls, in general and
\* in front of a breaker that opens at the first throttling failure.
MaxFacadeCalls == 3
MaxGuardedCalls == 3

\* The cache keys of the calls (function name and arguments).
FacadeKeys == {"A", "B"}

\* What the wrapped chain returns: a value, or an empty one (falsy).
EmptyValue == "{}"
FuncResults == PyValues \cup {EmptyValue}

\* api_resilience.py:185-192, CircuitBreaker.allow_request at clock reading t.
allow_request(st, until, t) ==
    IF st = "OPEN"
    THEN IF t >= until
         THEN [allowed |-> TRUE, state |-> "HALF_OPEN"]
         ELSE [allowed |-> FALSE, state |-> st]
    ELSE [allowed |-> TRUE, state |-> st]

\* api_resilience.py:199-210, CircuitBreaker.record_failure at clock reading t.
record_failure(fails, st, until, exc, t) ==
    LET appended == Append(prune(fails, t), t)
    IN  IF ~is_rate_limit_error(exc)
        THEN [failures |-> fails, state |-> st, opened_until |-> until]
        ELSE IF Len(appended) >= failure_threshold
        THEN [failures |-> appended, state |-> "OPEN",
              opened_until |-> t + recovery_timeout]
        ELSE [failures |-> appended, state |-> st, opened_until |-> until]

\* History: how a wrapper call ended, and what the wrapped chain did in it:
\* "none" when the chain was not entered (the rate limiter and the fetch
\* function are called nowhere else), "returned" or "raised" otherwise.
NoFacadeCall == [outcome |-> "none"]
FacadeReturned(key, value, chain) ==
    [outcome |-> "returned", key |-> key, value |-> value, exc |-> "-",
     chain |-> chain]
FacadeRaised(key, exc, chain) ==
    [outcome |-> "raised", key |-> key, value |-> NoValue, exc |-> exc,
     chain |-> chain]

\* The variables of the cache and of the breaker that a wrapper call leaves
\* alone.
FacadeUnchanged ==
    /\ UNCHANGED <<enable_memory, enable_disk, max_entries, disk_ok,
                   cache_now, cache_ops_left, redis_enabled, redis_up,
                   redis_store, sqlite_ok, sqlite_store>>
    /\ UNCHANGED <<failure_threshold, window_seconds, recovery_timeout, now,
                   requests_left, recorded, probe, last_probe, rpc, r_now,
                   r_exc, allowed>>
    /\ UNCHANGED <<facade_ttl, allow_stale_on_error, has_breaker>>
    /\ UNCHANGED nonFacadeCallVars

\* A faulty variant: the wrapper does not look at what the cache returned.
is_hit_never(cached_value) == FALSE

\* api_resilience.py:497, `if cached_value is not None`.
is_hit(cached_value) == cached_value # NoValue

\* api_resilience.py:491-527, one call of the wrapper for cache key `key`;
\* if it gets as far as the wrapped chain, the chain returns `returned`
\* (exc = None) or raises exc.
CachedApiCall(key, returned, exc) ==
    LET t == cache_now
        first == cache_get(memory_cache, disk_files, disk_ok, enable_memory,
                           enable_disk, key, FALSE, t)
        verdict == allow_request(state, opened_until, t)
        stale == cache_get(first.memory, disk_files, disk_ok, enable_memory,
                           enable_disk, key, TRUE, t)
        failed == record_failure(failures, verdict.state, opened_until, exc, t)
    IN  /\ facade_calls_left > 0
        /\ facade_calls_left' = facade_calls_left - 1
        /\ last_op' = NoOp
        /\ IF is_hit(first.value)
           THEN \* l.496-499: a fresh hit
                /\ memory_cache' = first.memory
                /\ facade_last' = FacadeReturned(key, first.value, "none")
                /\ UNCHANGED <<disk_files, state, failures, opened_until>>
           ELSE IF has_breaker /\ ~verdict.allowed
           THEN \* l.501-506: the breaker rejects
                /\ memory_cache' = stale.memory
                /\ facade_last' =
                       IF stale.value # NoValue
                       THEN FacadeReturned(key, stale.value, "none")
                       ELSE FacadeRaised(key, "CircuitOpenError", "none")
                /\ UNCHANGED <<disk_files, state, failures, opened_until>>
           ELSE IF exc = None
           THEN \* l.510-515: the chain returns
                /\ memory_cache' =
                       IF returned # EmptyValue
                       THEN cache_set_memory(first.memory, enable_memory,
                                max_entries, key, returned, facade_ttl, t)
                       ELSE first.memory
                /\ disk_files' =
                       IF returned # EmptyValue
                       THEN cache_set_disk(disk_files, disk_ok, enable_disk,
                                           key, returned, facade_ttl, t)
                       ELSE disk_files
                /\ state' = IF has_breaker THEN "CLOSED" ELSE state
                /\ failures' = IF has_breaker THEN <<>> ELSE failures
                /\ facade_last' = FacadeReturned(key, returned, "returned")
                /\ UNCHANGED opened_until
           ELSE \* l.516-527: the chain raises
                /\ state' = IF has_breaker THEN failed.state ELSE state
                /\ failures' = IF has_breaker THEN failed.failures ELSE failures
                /\ opened_until' = IF has_breaker THEN failed.opened_until
                                   ELSE opened_until
                /\ UNCHANGED disk_files
                /\ IF allow_stale_on_error /\ stale.value # NoValue
                   THEN /\ memory_cache' = stale.memory
                        /\ facade_last' = FacadeReturned(key, stale.value, "raised")
                   ELSE /\ memory_cache' = IF allow_stale_on_error
                                           THEN stale.memory ELSE first.memory
                        /\ facade_last' = FacadeRaised(key, "Exception", "raised")
        /\ recency' = RecencyAfter(recency, memory_cache', key)
        /\ FacadeUnchanged

\* Time passes, or the disk changes, as for the cache alone.
FacadeTick ==
    /\ cache_now < MaxCacheTime
    /\ cache_now' = cache_now + 1
    /\ UNCHANGED <<memory_cache, disk_files, enable_memory, enable_disk,
                   max_entries, disk_ok, cache_ops_left, recency, last_op,
                   redis_enabled, redis_up, redis_store, sqlite_ok,
                   sqlite_store>>
    /\ UNCHANGED nonCacheVars

FacadeDiskChanges ==
    /\ disk_ok' = ~disk_ok
    /\ UNCHANGED <<memory_cache, disk_files, enable_memory, enable_disk,
                   max_entries, cache_now, cache_ops_left, recency, last_op,
                   redis_enabled, redis_up, redis_store, sqlite_ok,
                   sqlite_store>>
    /\ UNCHANGED nonCacheVars

\* api_resilience.py:469-474: a decorator with one of the given arguments and
\* ncalls wrapper calls to come.
FacadeInit(ttls, stale_on_error, breakers, ncalls) ==
    /\ facade_ttl \in ttls
    /\ allow_stale_on_error \in stale_on_error
    /\ has_breaker \in breakers
    /\ facade_calls_left = ncalls
    /\ facade_last = NoFacadeCall

\* The wrapped chain's outcome: a result, or an exception.
FacadeNext ==
    \/ \E key \in FacadeKeys, returned \in FuncResults :
            CachedApiCall(key, returned, None)
    \/ \E key \in FacadeKeys, exc \in Exceptions :
            CachedApiCall(key, EmptyValue, exc)
    \/ FacadeTick
    \/ FacadeDiskChanges

\* providers/screener_provider.py:577-584: the arguments of get_full_data.
ScreenerTtl == 3600
FacadeIdle == FacadeInit({ScreenerTtl}, {TRUE}, {TRUE}, 0)

-----------------------------------------------------------------------------
(* cached_stock_data.decorated_function (backend/services/cache_service.py),
   the cache in front of the analysis route: a read of CacheService, then the
   cached report, the cached report with a refresh scheduled, or the route
   itself. A request is one step; it works on the CacheService and the
   RequestScheduler modelled above, whose clocks advance together here.
   FEATURE_PREFETCH and FEATURE_USAGE_ANALYTICS are off, as they are unless
   the environment sets them. *)

\* Bounds of the analysis model: the number of requests (when several
\* refreshes are scheduled, and when entries age past the stale window) and
\* how many times the clock advances.
MaxAnalysisCalls == 4
MaxStalenessCalls == 3
MaxAnalysisTicks == 3

\* cache_service.py:23, _MEMORY_CACHE_MAX_ENTRIES by default.
MEMORY_CACHE_MAX_ENTRIES == 1000

\* cache_service.py:153-154: the refresh is scheduled with priority 2, five
\* seconds ahead.
SWR_PRIORITY == 2
SWR_DELAY_SECONDS == 5

\* The clock advances in steps of the refresh delay. The timeouts that
\* _dynamic_timeout arrives at, the stale windows (longer than any of them),
\* and the report of the route.
AnalysisTimeouts == {SWR_DELAY_SECONDS}
StaleTtls == {2 * SWR_DELAY_SECONDS, 3 * SWR_DELAY_SECONDS}
Report == "{'a': 1}"

\* cache_service.py:155 and 234: the dedupe key of the refresh of a cache key.
RefreshKey(cache_key) ==
    CASE cache_key = "A" -> "refresh:A"
      [] cache_key = "B" -> "refresh:B"
      [] cache_key = "C" -> "refresh:C"

\* What get_with_metadata returns, (None, None, None) being NoMetadata, and
\* the memory tier as the call leaves it.
Metadata(mem, data, cached_at, ttl, raised) ==
    [memory |-> mem, data |-> data, cached_at |-> cached_at, ttl |-> ttl,
     raised |-> raised]
NoMetadata(mem, raised) == Metadata(mem, NoValue, 0, 0, raised)

\* cache_service.py:50-64 and 93-99, CacheService.get_with_metadata at clock
\* reading t: the memory tier, then Redis if it answered the ping in
\* __init__, then the SQLite store, whose rows have no expiry on this path
\* (persistent_cache.py:33-46).
get_with_metadata(key, t) ==
    LET r == cache_get(memory_cache, disk_files, disk_ok, enable_memory,
                       enable_disk, key, FALSE, t)
        data == redis_get(redis_store, key, t)
        row == sqlite_store[key]
        loaded == wrapped_loads(row.value)
        from_redis == wrapped_loads(data.value)
        persistent ==
            IF ~sqlite_ok THEN NoMetadata(r.memory, TRUE)
            ELSE IF row.exists
            THEN Metadata(r.memory, loaded.data, loaded.cached_at, loaded.ttl,
                          FALSE)
            ELSE NoMetadata(r.memory, FALSE)
    IN  IF r.kind # "miss"
        THEN Metadata(r.memory, r.value.data, r.value.cached_at, r.value.ttl,
                      FALSE)
        ELSE IF ~redis_enabled THEN persistent
        ELSE IF ~redis_up THEN NoMetadata(r.memory, TRUE)
        ELSE IF data.exists
        THEN Metadata(r.memory, from_redis.data, from_redis.cached_at,
                      from_redis.ttl, FALSE)
        ELSE persistent

\* cache_service.py:66-74, CacheService.set at clock reading t on a memory
\* tier mem: the three stores as the call leaves them, and whether it raised.
service_set(mem, key, value, timeout, t) ==
    LET memory_ttl == IF MEMORY_TTL_SECONDS < timeout
                      THEN MEMORY_TTL_SECONDS ELSE timeout
        wrapped == wrap(value, timeout, t)
        redis_raises == redis_enabled /\ ~redis_up
        sqlite_raises == ~redis_raises /\ ~sqlite_ok
    IN  [memory |-> cache_set_memory(mem, enable_memory, max_entries, key,
                                     wrapped, memory_ttl, t),
         redis |-> IF redis_enabled /\ redis_up
                   THEN [redis_store EXCEPT ![key] =
                           [exists |-> TRUE, value |-> wrapped_dumps(wrapped),
                            expires_at |-> t + timeout]]
                   ELSE redis_store,
         sqlite |-> IF ~redis_raises /\ sqlite_ok
                    THEN [sqlite_store EXCEPT ![key] =
                            [exists |-> TRUE, value |-> wrapped_dumps(wrapped),
                             cached_at |-> t, expires_at |-> t + timeout]]
                    ELSE sqlite_store,
         raised |-> redis_raises \/ sqlite_raises]

\* request_scheduler.py:41-51, the locked block of schedule at clock reading
\* t: the heap and the keys as it leaves them, and True, False or the
\* TypeError of heappush, which has appended the tuple by then.
schedule(heap, inflight, t, fn, priority, delay_seconds, key) ==
    LET run_at == RunAt(t, delay_seconds, 0)
        err == heappush(heap, Task(run_at, priority, fn, key, TRUE)).err
        r == heappush(heap, Task(run_at, priority, fn, key, ~err))
    IN  IF key # NoKey /\ key \in inflight
        THEN [queue |-> heap, inflight_keys |-> inflight, ret |-> "False"]
        ELSE [queue |-> r.heap,
              inflight_keys |-> IF ~err /\ key # NoKey
                                THEN inflight \cup {key} ELSE inflight,
              ret |-> IF err THEN "TypeError" ELSE "True"]

\* History: a request for cache_key; what the read found (found: a truthy
\* value with its age and the ttl it is measured against); whether the route
\* ran; what schedule returned; and how the request ended: with the cached
\* report, with the response of the route, or with an exception.
NoAnalysis == [cache_key |-> NoKey, ended |-> "none"]
Analysis(cache_key, found, age, ttl, fetched, scheduled, ended, data) ==
    [cache_key |-> cache_key, found |-> found, age |-> age, ttl |-> ttl,
     fetched |-> fetched, scheduled |-> scheduled, ended |-> ended,
     data |-> data]

\* A faulty variant of the test of line 146: the stale window is ignored.
within_stale_window_always(age, window) == TRUE

\* cache_service.py:146, the first half of the test.
within_stale_window(age, window) == age <= window

\* cache_service.py:110-198, a request through decorated_function at the
\* clock reading cache_now: the route answers with the given status, and
\* _dynamic_timeout with dynamic_timeout.
DecoratedFunction(cache_key, status, dynamic_timeout) ==
    LET t == cache_now
        m == get_with_metadata(cache_key, t)
        found == ~m.raised /\ m.data # NoValue
        age == t - m.cached_at
        effective_ttl == m.ttl  \* cached_ttl or current_timeout, none being 0
        fresh == found /\ age <= effective_ttl
        swr == /\ found
               /\ ~fresh
               /\ within_stale_window(age, stale_ttl)
               /\ swr_enabled
        s == schedule(queue, inflight_keys, t, "_refresh_analysis",
                      SWR_PRIORITY, SWR_DELAY_SECONDS, RefreshKey(cache_key))
        w == service_set(m.memory, cache_key, Report, dynamic_timeout, t)
        stores == status = 200
    IN  /\ analysis_calls_left > 0
        /\ analysis_calls_left' = analysis_calls_left - 1
        /\ IF swr THEN start ELSE UNCHANGED <<running, wpc>>
        /\ queue' = IF swr THEN s.queue ELSE queue
        /\ inflight_keys' = IF swr THEN s.inflight_keys ELSE inflight_keys
        /\ memory_cache' =
            IF ~m.raised /\ ~fresh /\ ~swr /\ stores THEN w.memory ELSE m.memory
        /\ recency' = RecencyAfter(recency, memory_cache', cache_key)
        /\ redis_store' =
            IF ~m.raised /\ ~fresh /\ ~swr /\ stores THEN w.redis ELSE redis_store
        /\ sqlite_store' =
            IF ~m.raised /\ ~fresh /\ ~swr /\ stores THEN w.sqlite
            ELSE sqlite_store
        /\ last_op' = NoOp
        /\ analysis_last' =
            IF m.raised
            THEN Analysis(cache_key, FALSE, 0, 0, FALSE, "none", "raised",
                         NoValue)
            ELSE IF fresh
            THEN Analysis(cache_key, TRUE, age, effective_ttl, FALSE, "none",
                         "cached", m.data)
            ELSE IF swr
            THEN Analysis(cache_key, TRUE, age, effective_ttl, FALSE, s.ret,
                         IF s.ret = "TypeError" THEN "raised" ELSE "cached",
                         IF s.ret = "TypeError" THEN NoValue ELSE m.data)
            ELSE Analysis(cache_key, found, IF found THEN age ELSE 0,
                         IF found THEN effective_ttl ELSE 0, TRUE, "none",
                         IF stores /\ w.raised THEN "raised" ELSE "response",
                         IF stores /\ ~w.raised THEN Report ELSE NoValue)
        /\ UNCHANGED <<sched_now, schedules_left, spc, last_call, crashed,
                       task, caught>>
        /\ UNCHANGED <<disk_files, cache_now, enable_memory, enable_disk,
                       max_entries, disk_ok, cache_ops_left, redis_enabled,
                       redis_up, sqlite_ok>>
        /\ UNCHANGED <<stale_ttl, swr_enabled>>
        /\ UNCHANGED nonAnalysisCallVars

\* cache_service.py:203-214 run by the worker (request_scheduler.py:69):
\* _refresh_analysis has built the report and stores it; an exception of
\* CacheService.set is logged like any other. (A refresh that fails earlier
\* changes nothing and returns: ActionReturn.)
RefreshAnalysis(w, timeout) ==
    LET cache_key == TaskArgs(task[w].key).cache_key
        r == service_set(memory_cache, cache_key, Report, timeout, cache_now)
    IN  /\ wpc[w] = "run"
        /\ task[w].fn = "_refresh_analysis"
        /\ wpc' = [wpc EXCEPT ![w] = "finally"]
        /\ memory_cache' = r.memory
        /\ recency' = RecencyAfter(recency, r.memory, cache_key)
        /\ redis_store' = r.redis
        /\ sqlite_store' = r.sqlite
        /\ last_op' = NoOp
        /\ UNCHANGED <<queue, inflight_keys, running, sched_now,
                       schedules_left, spc, last_call, crashed, task, caught>>
        /\ UNCHANGED <<disk_files, cache_now, enable_memory, enable_disk,
                       max_entries, disk_ok, cache_ops_left, redis_enabled,
                       redis_up, sqlite_ok>>
        /\ UNCHANGED analysisVars
        /\ UNCHANGED nonAnalysisCallVars

\* Time passes, for the cache and the scheduler alike.
AnalysisTick ==
    /\ cache_now < MaxAnalysisTicks * SWR_DELAY_SECONDS
    /\ cache_now' = cache_now + SWR_DELAY_SECONDS
    /\ sched_now' = cache_now + SWR_DELAY_SECONDS
    /\ last_op' = NoOp
    /\ UNCHANGED <<queue, inflight_keys, running, schedules_left, spc,
                   last_call, crashed, wpc, task, caught>>
    /\ UNCHANGED <<memory_cache, disk_files, enable_memory, enable_disk,
                   max_entries, disk_ok, cache_ops_left, recency,
                   redis_enabled, redis_up, redis_store, sqlite_ok,
                   sqlite_store>>
    /\ UNCHANGED analysisVars
    /\ UNCHANGED nonAnalysisCallVars

\* cache_service.py:101-103: the decorator applied, with ncalls requests to
\* come.
AnalysisInit(windows, swr_states, ncalls) ==
    /\ stale_ttl \in windows
    /\ swr_enabled \in swr_states
    /\ analysis_calls_left = ncalls
    /\ analysis_last = NoAnalysis

\* Requests to the analysis route, the worker of the scheduler running the
\* refreshes, and time.
AnalysisNext ==
    \/ \E cache_key \in CacheKeys, status \in {200, 500},
          dynamic_timeout \in AnalysisTimeouts :
            DecoratedFunction(cache_key, status, dynamic_timeout)
    \/ \E w \in Workers : WorkerLoop(w)
    \/ \E w \in Workers, timeout \in AnalysisTimeouts :
            RefreshAnalysis(w, timeout)
    \/ \E w \in Workers : ActionReturn(w)
    \/ \E w \in Workers : Release(w)
    \/ AnalysisTick

\* api/routes.py:119: @cached_stock_data(timeout=3600) with the default
\* stale window (cache_service.py:103) and FEATURE_SWR unset, never called.
ANALYSIS_STALE_TTL_SECONDS == 604800
AnalysisIdle == AnalysisInit({ANALYSIS_STALE_TTL_SECONDS}, {FALSE}, 0)

-----------------------------------------------------------------------------
(* The backoff schedule of retry_with_backoff.wrapper
   (backend/utils/api_resilience.py:412-458): one call whose attempts fail
   with ordinary failures, and the waits between them. Times are in tenths of
   a second, backoff_factor in tenths, jitter in hundredths. *)

\* Bounds of the backoff model: max_attempts and the number of calls.
MaxBackoffAttempts == 5
MaxBackoffCalls == 2

\* api_resilience.py:453-456: the delays set after the first and after the
\* second failed attempt, 2.0 s and 5.0 s.
DELAY_AFTER_FIRST == 20
DELAY_AFTER_SECOND == 50

\* initial_delay: 0.5 s (the docstring's example, l.405) and the default,
\* which robust_api_call passes too (l.386, 588); backoff_factor 1.5 and the
\* default 2.0 (l.387, 589); jitter 0 and the default 0.2 (l.389).
InitialDelays == {5, DELAY_AFTER_FIRST}
BackoffFactors == {15, DELAY_AFTER_FIRST}
Jitters == {0, DELAY_AFTER_FIRST}

\* api_resilience.py:448: the values random.uniform(0, delay * jitter) takes
\* on the grid of tenths, 0 when delay is 0.
BackoffJitters(d, j) == IF d > 0 THEN 0..((d * j) \div 100) ELSE {0}

\* A variant that multiplies from the second failure on.
next_delay_multiplied(att, d, factor) ==
    IF att = 1 THEN DELAY_AFTER_FIRST ELSE (d * factor) \div 10

\* api_resilience.py:452-458: the delay of the next wait.
next_delay(att, d, factor) ==
    IF att = 1 THEN DELAY_AFTER_FIRST
    ELSE IF att = 2 THEN DELAY_AFTER_SECOND
    ELSE (d * factor) \div 10

\* api_resilience.py:412-414: the wrapper is called.
BackoffEnter ==
    /\ failed_attempt = 0
    /\ backoff_calls_left > 0
    /\ backoff_calls_left' = backoff_calls_left - 1
    /\ delay' = initial_delay
    /\ failed_attempt' = 1
    /\ base_waits' = <<>>
    /\ backoff_jitter' = 0
    /\ UNCHANGED <<initial_delay, backoff_factor, jitter, backoff_attempts>>
    /\ UNCHANGED nonBackoffVars

\* api_resilience.py:425-427 and 441-460: the attempt returns, or it fails
\* as the last one; the call is over.
BackoffOver ==
    /\ failed_attempt >= 1
    /\ failed_attempt' = 0
    /\ UNCHANGED <<initial_delay, backoff_factor, jitter, backoff_attempts,
                   backoff_calls_left, delay, base_waits, backoff_jitter>>
    /\ UNCHANGED nonBackoffVars

\* api_resilience.py:441-458: the attempt fails with an ordinary failure and
\* is not the last; the wrapper sleeps delay + jitter_delta, sets the next
\* delay and goes to the next attempt.
BackoffSleep(jd) ==
    /\ failed_attempt >= 1
    /\ failed_attempt < backoff_attempts
    /\ jd \in BackoffJitters(delay, jitter)
    /\ backoff_jitter' = jd
    /\ base_waits' = IF Len(base_waits) < 2
                     THEN Append(base_waits, delay)
                     ELSE <<base_waits[2], delay>>
    /\ delay' = next_delay(failed_attempt, delay, backoff_factor)
    /\ failed_attempt' = failed_attempt + 1
    /\ UNCHANGED <<initial_delay, backoff_factor, jitter, backoff_attempts,
                   backoff_calls_left>>
    /\ UNCHANGED nonBackoffVars

\* A wrapper with the given decorator arguments, ncalls calls to come.
BackoffInit(delays, factors, jitters, attempts, ncalls) ==
    /\ initial_delay \in delays
    /\ backoff_factor \in factors
    /\ jitter \in jitters
    /\ backoff_attempts \in attempts
    /\ backoff_calls_left = ncalls
    /\ delay = initial_delay
    /\ failed_attempt = 0
    /\ base_waits = <<>>
    /\ backoff_jitter = 0

BackoffNext ==
    \/ BackoffEnter
    \/ BackoffOver
    \/ \E jd \in 0..MaxBackoffAttempts * DELAY_AFTER_SECOND : BackoffSleep(jd)

\* The decorator with its defaults, never called.
BackoffIdle ==
    BackoffInit({DELAY_AFTER_FIRST}, {DELAY_AFTER_FIRST}, {DELAY_AFTER_FIRST},
                {2}, 0)

-----------------------------------------------------------------------------
(* PersistentCache.set (backend/services/persistent_cache.py:48-64) called by
   concurrent threads: each reads the clock, then takes _lock and upserts the
   row of its key. The locked block is one step. *)

\* Bounds of the durable-store model: the number of set calls and how far
\* the clock runs.
MaxPersistCalls == 3
MaxPersistTime == 2

PersistWriters == {1, 2}
PersistKeys == {"A", "B"}
PersistValues == {"v1", "v2"}
PersistTtls == {1, 2}

\* A key without a row, and a row of the table.
NoRow == [present |-> FALSE, value |-> NoValue, cached_at |-> 0, expires_at |-> 0]
Row(value, cached_at, expires_at) ==
    [present |-> TRUE, value |-> value, cached_at |-> cached_at,
     expires_at |-> expires_at]

NoSet == [key |-> NoKey, value |-> NoValue, ttl |-> 0]

\* A variant: the row written carries the time of the write.
upsert_at_write(rows, key, value, t_read, t_write, ttl) ==
    [rows EXCEPT ![key] = Row(value, t_write, t_write + ttl)]

\* persistent_cache.py:52-64: INSERT ... ON CONFLICT(key) DO UPDATE with the
\* clock reading taken at line 49.
upsert(rows, key, value, t_read, t_write, ttl) ==
    [rows EXCEPT ![key] = Row(value, t_read, t_read + ttl)]

\* persistent_cache.py:48-51: set is called, reads the clock and serialises
\* the value.
PersistSetEnter(w, key, value, ttl) ==
    /\ ppc[w] = "idle"
    /\ persist_calls_left > 0
    /\ persist_calls_left' = persist_calls_left - 1
    /\ p_args' = [p_args EXCEPT ![w] = [key |-> key, value |-> value, ttl |-> ttl]]
    /\ p_now' = [p_now EXCEPT ![w] = persist_now]
    /\ ppc' = [ppc EXCEPT ![w] = "lock"]
    /\ UNCHANGED <<cache_entries, persist_now, completed>>
    /\ UNCHANGED nonPersistVars

\* persistent_cache.py:52-64: under _lock the row is upserted and committed;
\* set returns.
PersistSetLocked(w) ==
    /\ ppc[w] = "lock"
    /\ cache_entries' = upsert(cache_entries, p_args[w].key, p_args[w].value,
                               p_now[w], persist_now, p_args[w].ttl)
    /\ completed' = [completed EXCEPT ![p_args[w].key] = @ \cup {p_now[w]}]
    /\ ppc' = [ppc EXCEPT ![w] = "idle"]
    /\ p_args' = [p_args EXCEPT ![w] = NoSet]
    /\ p_now' = [p_now EXCEPT ![w] = 0]
    /\ UNCHANGED <<persist_now, persist_calls_left>>
    /\ UNCHANGED nonPersistVars

\* Time passes.
PersistTick ==
    /\ persist_now < MaxPersistTime
    /\ persist_now' = persist_now + 1
    /\ UNCHANGED <<cache_entries, persist_calls_left, completed, ppc, p_args,
                   p_now>>
    /\ UNCHANGED nonPersistVars

\* persistent_cache.py:9-31: an empty table, ncalls set calls to come.
PersistInit(ncalls) ==
    /\ cache_entries = [k \in PersistKeys |-> NoRow]
    /\ persist_now = 0
    /\ persist_calls_left = ncalls
    /\ completed = [k \in PersistKeys |-> {}]
    /\ ppc = [w \in PersistWriters |-> "idle"]
    /\ p_args = [w \in PersistWriters |-> NoSet]
    /\ p_now = [w \in PersistWriters |-> 0]

PersistNext ==
    \/ \E w \in PersistWriters, key \in PersistKeys, value \in PersistValues,
          ttl \in PersistTtls : PersistSetEnter(w, key, value, ttl)
    \/ \E w \in PersistWriters : PersistSetLocked(w)
    \/ PersistTick

PersistIdle == PersistInit(0)

-----------------------------------------------------------------------------
(* UserRateLimiter.allow (backend/services/user_rate_limiter.py:12-21) called
   by concurrent threads: each reads the clock, then takes _lock, prunes the
   deque of its key, and records the call or denies it. The locked block is
   one step. *)

\* Bounds of the per-client limiter model: the number of allow calls and how
\* far the clock runs.
MaxAllowCalls == 4
MaxUserTime == 2

UserCallers == {1, 2}
UserKeys == {"u", "v"}
UserLimits == {1, 2}
UserWindows == {1}

\* user_rate_limiter.py:16-17: the deque without its expired head.
RECURSIVE user_prune(_, _, _)
user_prune(dq, t, window) ==
    IF dq # <<>> /\ (t - Head(dq)) > window
    THEN user_prune(Tail(dq), t, window)
    ELSE dq

\* user_rate_limiter.py:13: allow is called and reads the clock.
AllowEnter(c, key) ==
    /\ upc[c] = "idle"
    /\ user_calls_left > 0
    /\ user_calls_left' = user_calls_left - 1
    /\ u_key' = [u_key EXCEPT ![c] = key]
    /\ u_now' = [u_now EXCEPT ![c] = user_now]
    /\ u_ret' = [u_ret EXCEPT ![c] = "None"]
    /\ upc' = [upc EXCEPT ![c] = "lock"]
    /\ UNCHANGED <<user_events, user_limit, user_window, user_now, granted>>
    /\ UNCHANGED nonUserVars

\* A variant that reads the clock once it holds the lock.
AllowLockedReadsClock(c) ==
    LET dq == user_prune(user_events[u_key[c]], user_now, user_window)
    IN  /\ upc[c] = "lock"
        /\ IF Len(dq) >= user_limit
           THEN /\ user_events' = [user_events EXCEPT ![u_key[c]] = dq]
                /\ u_ret' = [u_ret EXCEPT ![c] = "False"]
                /\ UNCHANGED granted
           ELSE /\ user_events' =
                       [user_events EXCEPT ![u_key[c]] = Append(dq, user_now)]
                /\ u_ret' = [u_ret EXCEPT ![c] = "True"]
                /\ granted' = [granted EXCEPT ![u_key[c]][user_now] = @ + 1]
        /\ upc' = [upc EXCEPT ![c] = "idle"]
        /\ UNCHANGED <<user_limit, user_window, user_now, user_calls_left,
                       u_key, u_now>>
        /\ UNCHANGED nonUserVars

\* user_rate_limiter.py:14-21: under _lock the deque of the key is pruned
\* against the caller's clock reading; the call is denied when the deque
\* holds limit timestamps, and recorded otherwise.
AllowLocked(c) ==
    LET dq == user_prune(user_events[u_key[c]], u_now[c], user_window)
    IN  /\ upc[c] = "lock"
        /\ IF Len(dq) >= user_limit
           THEN /\ user_events' = [user_events EXCEPT ![u_key[c]] = dq]
                /\ u_ret' = [u_ret EXCEPT ![c] = "False"]
                /\ UNCHANGED granted
           ELSE /\ user_events' =
                       [user_events EXCEPT ![u_key[c]] = Append(dq, u_now[c])]
                /\ u_ret' = [u_ret EXCEPT ![c] = "True"]
                /\ granted' = [granted EXCEPT ![u_key[c]][u_now[c]] = @ + 1]
        /\ upc' = [upc EXCEPT ![c] = "idle"]
        /\ UNCHANGED <<user_limit, user_window, user_now, user_calls_left,
                       u_key, u_now>>
        /\ UNCHANGED nonUserVars

\* Time passes.
UserTick ==
    /\ user_now < MaxUserTime
    /\ user_now' = user_now + 1
    /\ UNCHANGED <<user_events, user_limit, user_window, user_calls_left,
                   granted, upc, u_key, u_now, u_ret>>
    /\ UNCHANGED nonUserVars

\* user_rate_limiter.py:8-10 and 24: the module's _limiter as constructed, and
\* ncalls calls of allow to come, all with one limit and one window.
UserInit(limits, windows, ncalls) ==
    /\ user_events = [k \in UserKeys |-> <<>>]
    /\ user_limit \in limits
    /\ user_window \in windows
    /\ user_now = 0
    /\ user_calls_left = ncalls
    /\ granted = [k \in UserKeys |-> [t \in 0..MaxUserTime |-> 0]]
    /\ upc = [c \in UserCallers |-> "idle"]
    /\ u_key = [c \in UserCallers |-> NoKey]
    /\ u_now = [c \in UserCallers |-> 0]
    /\ u_ret = [c \in UserCallers |-> "None"]

UserNext ==
    \/ \E c \in UserCallers, key \in UserKeys : AllowEnter(c, key)
    \/ \E c \in UserCallers : AllowLocked(c)
    \/ UserTick

UserIdle == UserInit({1}, {1}, 0)

-----------------------------------------------------------------------------
(* Specifications *)

Init ==
    /\ MergerInit(MaxCalls)
    /\ BreakerInit({ScreenerFailureThreshold}, {ScreenerWindowSeconds},
                   {ScreenerRecoveryTimeout}, 0)
    /\ SchedulerInit(0)
    /\ CacheIdle
    /\ LimiterIdle
    /\ RetryIdle
    /\ FacadeIdle
    /\ AnalysisIdle
    /\ BackoffIdle
    /\ PersistIdle
    /\ UserIdle
Next == MergerNext

\* The coalescer under any interleaving of its callers.
Spec == Init /\ [][Next]_vars

\* The same, with every caller thread scheduled: a caller inside
\* merge_stock_data eventually takes its next step. Nothing forces the upstream
\* fetch to finish, nor a new call to arrive.
FairInit ==
    /\ MergerInit(MaxFairCalls)
    /\ BreakerInit({ScreenerFailureThreshold}, {ScreenerWindowSeconds},
                   {ScreenerRecoveryTimeout}, 0)
    /\ SchedulerInit(0)
    /\ CacheIdle
    /\ LimiterIdle
    /\ RetryIdle
    /\ FacadeIdle
    /\ AnalysisIdle
    /\ BackoffIdle
    /\ PersistIdle
    /\ UserIdle
FairSpec == FairInit /\ [][Next]_vars /\ \A t \in Callers : WF_vars(OwnSteps(t))

\* The breaker under any interleaving of the request threads and the clock,
\* for every configuration within the bounds.
BreakerSpecInit ==
    /\ MergerInit(0)
    /\ BreakerInit(1..MaxThreshold, 1..MaxWindow, 1..MaxRecovery, MaxRequests)
    /\ SchedulerInit(0)
    /\ CacheIdle
    /\ LimiterIdle
    /\ RetryIdle
    /\ FacadeIdle
    /\ AnalysisIdle
    /\ BackoffIdle
    /\ PersistIdle
    /\ UserIdle
BreakerSpec == BreakerSpecInit /\ [][BreakerNext]_vars

\* The scheduler under any interleaving of the threads calling schedule, the
\* _worker thread and the clock.
SchedulerSpecInit ==
    /\ MergerInit(0)
    /\ BreakerInit({ScreenerFailureThreshold}, {ScreenerWindowSeconds},
                   {ScreenerRecoveryTimeout}, 0)
    /\ SchedulerInit(MaxSchedules)
    /\ CacheIdle
    /\ LimiterIdle
    /\ RetryIdle
    /\ FacadeIdle
    /\ AnalysisIdle
    /\ BackoffIdle
    /\ PersistIdle
    /\ UserIdle
SchedulerSpec == SchedulerSpecInit /\ [][SchedulerNext]_vars

\* The same with threads calling start and stop as well.
LifecycleSpecInit ==
    /\ MergerInit(0)
    /\ BreakerInit({ScreenerFailureThreshold}, {ScreenerWindowSeconds},
                   {ScreenerRecoveryTimeout}, 0)
    /\ SchedulerInit(MaxLifecycleSchedules)
    /\ CacheIdle
    /\ LimiterIdle
    /\ RetryIdle
    /\ FacadeIdle
    /\ AnalysisIdle
    /\ BackoffIdle
    /\ PersistIdle
    /\ UserIdle
LifecycleSpec == LifecycleSpecInit /\ [][LifecycleNext]_vars

\* The same with one more schedule call, for what a stop() leaves behind.
ShutdownSpecInit ==
    /\ MergerInit(0)
    /\ BreakerInit({ScreenerFailureThreshold}, {ScreenerWindowSeconds},
                   {ScreenerRecoveryTimeout}, 0)
    /\ SchedulerInit(MaxShutdownSchedules)
    /\ CacheIdle
    /\ LimiterIdle
    /\ RetryIdle
    /\ FacadeIdle
    /\ AnalysisIdle
    /\ BackoffIdle
    /\ PersistIdle
    /\ UserIdle
ShutdownSpec == ShutdownSpecInit /\ [][LifecycleNext]_vars

\* The scheduler with its threads scheduled fairly: a _worker thread that can
\* take a step eventually does (in particular every action ends), and time
\* passes.
FairSchedulerSpecInit ==
    /\ MergerInit(0)
    /\ BreakerInit({ScreenerFailureThreshold}, {ScreenerWindowSeconds},
                   {ScreenerRecoveryTimeout}, 0)
    /\ SchedulerInit(MaxFairSchedules)
    /\ CacheIdle
    /\ LimiterIdle
    /\ RetryIdle
    /\ FacadeIdle
    /\ AnalysisIdle
    /\ BackoffIdle
    /\ PersistIdle
    /\ UserIdle
FairSchedulerSpec ==
    /\ FairSchedulerSpecInit
    /\ [][SchedulerNext]_vars
    /\ \A w \in Workers : WF_vars(WorkerSteps(w))
    /\ WF_vars(SchedTick)

\* An APICache in each tier configuration, under any sequence of get and set
\* calls, with time passing.
CacheSpecInit ==
    /\ MergerInit(0)
    /\ BreakerInit({ScreenerFailureThreshold}, {ScreenerWindowSeconds},
                   {ScreenerRecoveryTimeout}, 0)
    /\ SchedulerInit(0)
    /\ CacheInit(Configs, MaxEntriesChoices, MaxCacheOps, {FALSE})
    /\ LimiterIdle
    /\ RetryIdle
    /\ FacadeIdle
    /\ AnalysisIdle
    /\ BackoffIdle
    /\ PersistIdle
    /\ UserIdle
CacheSpec == CacheSpecInit /\ [][CacheNext]_vars

\* The same for longer sequences of calls that differ in their keys only.
LruSpecInit ==
    /\ MergerInit(0)
    /\ BreakerInit({ScreenerFailureThreshold}, {ScreenerWindowSeconds},
                   {ScreenerRecoveryTimeout}, 0)
    /\ SchedulerInit(0)
    /\ CacheInit(Configs, MaxEntriesChoices, MaxLruOps, {FALSE})
    /\ LimiterIdle
    /\ RetryIdle
    /\ FacadeIdle
    /\ AnalysisIdle
    /\ BackoffIdle
    /\ PersistIdle
    /\ UserIdle
LruSpec == LruSpecInit /\ [][LruNext]_vars

\* The same when every entry is stored with a zero or negative ttl.
ZeroTtlSpecInit ==
    /\ MergerInit(0)
    /\ BreakerInit({ScreenerFailureThreshold}, {ScreenerWindowSeconds},
                   {ScreenerRecoveryTimeout}, 0)
    /\ SchedulerInit(0)
    /\ CacheInit(Configs, MaxEntriesChoices, MaxZeroTtlOps, {FALSE})
    /\ LimiterIdle
    /\ RetryIdle
    /\ FacadeIdle
    /\ AnalysisIdle
    /\ BackoffIdle
    /\ PersistIdle
    /\ UserIdle
ZeroTtlSpec == ZeroTtlSpecInit /\ [][ZeroTtlNext]_vars

\* The APICache with the disk coming and going.
DegradedCacheSpecInit ==
    /\ MergerInit(0)
    /\ BreakerInit({ScreenerFailureThreshold}, {ScreenerWindowSeconds},
                   {ScreenerRecoveryTimeout}, 0)
    /\ SchedulerInit(0)
    /\ CacheInit(Configs, MaxEntriesChoices, MaxDegradedOps, {FALSE})
    /\ LimiterIdle
    /\ RetryIdle
    /\ FacadeIdle
    /\ AnalysisIdle
    /\ BackoffIdle
    /\ PersistIdle
    /\ UserIdle
DegradedCacheSpec == DegradedCacheSpecInit /\ [][DegradedCacheNext]_vars

\* A CacheService over its memory-only APICache, Redis and the SQLite store,
\* under any sequence of get and set calls, with time passing and the two
\* stores coming and going.
CacheServiceSpecInit ==
    /\ MergerInit(0)
    /\ BreakerInit({ScreenerFailureThreshold}, {ScreenerWindowSeconds},
                   {ScreenerRecoveryTimeout}, 0)
    /\ SchedulerInit(0)
    /\ CacheInit({[memory |-> TRUE, disk |-> FALSE]}, MaxEntriesChoices,
                 MaxServiceOps, BOOLEAN)
    /\ LimiterIdle
    /\ RetryIdle
    /\ FacadeIdle
    /\ AnalysisIdle
    /\ BackoffIdle
    /\ PersistIdle
    /\ UserIdle
CacheServiceSpec == CacheServiceSpecInit /\ [][CacheServiceNext]_vars

\* A RateLimiter called by two threads, with time passing.
LimiterSpecInit ==
    /\ MergerInit(0)
    /\ BreakerInit({ScreenerFailureThreshold}, {ScreenerWindowSeconds},
                   {ScreenerRecoveryTimeout}, 0)
    /\ SchedulerInit(0)
    /\ CacheIdle
    /\ LimiterInit(1..MaxInterval, MaxWaits)
    /\ RetryIdle
    /\ FacadeIdle
    /\ AnalysisIdle
    /\ BackoffIdle
    /\ PersistIdle
    /\ UserIdle
LimiterSpec == LimiterSpecInit /\ [][LimiterNext]_vars

\* Callers of functions wrapped by retry_with_backoff racing on one
\* coordinator, with time passing; the request budgets are ample.
RetrySpecInit ==
    /\ MergerInit(0)
    /\ BreakerInit({ScreenerFailureThreshold}, {ScreenerWindowSeconds},
                   {ScreenerRecoveryTimeout}, 0)
    /\ SchedulerInit(0)
    /\ CacheIdle
    /\ LimiterIdle
    /\ RetryInit(1..MaxRetries, 1..MaxRetryWindow, {MaxAttempts}, BOOLEAN,
                 {MaxBudget}, MaxRetryCalls)
    /\ FacadeIdle
    /\ AnalysisIdle
    /\ BackoffIdle
    /\ PersistIdle
    /\ UserIdle
RetrySpec == RetrySpecInit /\ [][RetryNext]_vars

\* Calls under every max_attempts, whose thread keeps running and whose
\* clock keeps advancing.
AttemptsSpecInit ==
    /\ MergerInit(0)
    /\ BreakerInit({ScreenerFailureThreshold}, {ScreenerWindowSeconds},
                   {ScreenerRecoveryTimeout}, 0)
    /\ SchedulerInit(0)
    /\ CacheIdle
    /\ LimiterIdle
    /\ RetryInit({1}, {1}, 1..MaxAttempts, BOOLEAN, {MaxBudget},
                 MaxAttemptCalls)
    /\ FacadeIdle
    /\ AnalysisIdle
    /\ BackoffIdle
    /\ PersistIdle
    /\ UserIdle
AttemptsSpec ==
    /\ AttemptsSpecInit
    /\ [][AttemptsNext]_vars
    /\ WF_vars(InsideWrapper(1))
    /\ WF_vars(RetryClock)

\* One request context whose caller makes several calls in a row, under
\* every request budget.
BudgetSpecInit ==
    /\ MergerInit(0)
    /\ BreakerInit({ScreenerFailureThreshold}, {ScreenerWindowSeconds},
                   {ScreenerRecoveryTimeout}, 0)
    /\ SchedulerInit(0)
    /\ CacheIdle
    /\ LimiterIdle
    /\ RetryInit({MaxRetries}, {MaxRetryWindow}, 1..MaxAttempts, BOOLEAN,
                 0..MaxBudget, MaxBudgetCalls)
    /\ FacadeIdle
    /\ AnalysisIdle
    /\ BackoffIdle
    /\ PersistIdle
    /\ UserIdle
BudgetSpec == BudgetSpecInit /\ [][BudgetNext]_vars

\* The wrapper of cached_api_call over the module's _api_cache (memory and
\* disk) and a breaker, with time passing and the disk coming and going.
FacadeSpecInit ==
    /\ MergerInit(0)
    /\ BreakerInit(1..2, {MaxWindow}, 1..MaxRecovery, 0)
    /\ SchedulerInit(0)
    /\ CacheInit({[memory |-> TRUE, disk |-> TRUE]}, {API_CACHE_MAX_ENTRIES},
                 0, {FALSE})
    /\ LimiterIdle
    /\ RetryIdle
    /\ FacadeInit(CacheTtls, BOOLEAN, BOOLEAN, MaxFacadeCalls)
    /\ AnalysisIdle
    /\ BackoffIdle
    /\ PersistIdle
    /\ UserIdle
FacadeSpec == FacadeSpecInit /\ [][FacadeNext]_vars

\* The same wrapper with allow_stale_on_error at its default, in front of a
\* breaker that opens at the first throttling failure.
GuardedSpecInit ==
    /\ MergerInit(0)
    /\ BreakerInit({1}, {MaxWindow}, 1..MaxRecovery, 0)
    /\ SchedulerInit(0)
    /\ CacheInit({[memory |-> TRUE, disk |-> TRUE]}, {API_CACHE_MAX_ENTRIES},
                 0, {FALSE})
    /\ LimiterIdle
    /\ RetryIdle
    /\ FacadeInit(CacheTtls, {TRUE}, {TRUE}, MaxGuardedCalls)
    /\ AnalysisIdle
    /\ BackoffIdle
    /\ PersistIdle
    /\ UserIdle
GuardedSpec == GuardedSpecInit /\ [][FacadeNext]_vars

\* Requests to the analysis route in front of a CacheService with or
\* without Redis, with the stale-while-revalidate flag on or off.
AnalysisSpecInit ==
    /\ MergerInit(0)
    /\ BreakerInit({ScreenerFailureThreshold}, {ScreenerWindowSeconds},
                   {ScreenerRecoveryTimeout}, 0)
    /\ SchedulerInit(0)
    /\ CacheInit({[memory |-> TRUE, disk |-> FALSE]},
                 {MEMORY_CACHE_MAX_ENTRIES}, 0, BOOLEAN)
    /\ LimiterIdle
    /\ RetryIdle
    /\ FacadeIdle
    /\ AnalysisInit(StaleTtls, BOOLEAN, MaxAnalysisCalls)
    /\ BackoffIdle
    /\ PersistIdle
    /\ UserIdle
AnalysisSpec == AnalysisSpecInit /\ [][AnalysisNext]_vars

\* The same with fewer requests, which leaves the clock room to run on.
StalenessSpecInit ==
    /\ MergerInit(0)
    /\ BreakerInit({ScreenerFailureThreshold}, {ScreenerWindowSeconds},
                   {ScreenerRecoveryTimeout}, 0)
    /\ SchedulerInit(0)
    /\ CacheInit({[memory |-> TRUE, disk |-> FALSE]},
                 {MEMORY_CACHE_MAX_ENTRIES}, 0, BOOLEAN)
    /\ LimiterIdle
    /\ RetryIdle
    /\ FacadeIdle
    /\ AnalysisInit(StaleTtls, BOOLEAN, MaxStalenessCalls)
    /\ BackoffIdle
    /\ PersistIdle
    /\ UserIdle
StalenessSpec == StalenessSpecInit /\ [][AnalysisNext]_vars

\* Calls through retry_with_backoff whose attempts fail with ordinary
\* failures, for decorators of one to MaxBackoffAttempts attempts.
BackoffSpecInit ==
    /\ MergerInit(0)
    /\ BreakerInit({ScreenerFailureThreshold}, {ScreenerWindowSeconds},
                   {ScreenerRecoveryTimeout}, 0)
    /\ SchedulerInit(0)
    /\ CacheIdle
    /\ LimiterIdle
    /\ RetryIdle
    /\ FacadeIdle
    /\ AnalysisIdle
    /\ BackoffInit(InitialDelays, BackoffFactors, Jitters,
                   1..MaxBackoffAttempts, MaxBackoffCalls)
    /\ PersistIdle
    /\ UserIdle
BackoffSpec == BackoffSpecInit /\ [][BackoffNext]_vars

\* Threads calling PersistentCache.set concurrently.
PersistSpecInit ==
    /\ MergerInit(0)
    /\ BreakerInit({ScreenerFailureThreshold}, {ScreenerWindowSeconds},
                   {ScreenerRecoveryTimeout}, 0)
    /\ SchedulerInit(0)
    /\ CacheIdle
    /\ LimiterIdle
    /\ RetryIdle
    /\ FacadeIdle
    /\ AnalysisIdle
    /\ BackoffIdle
    /\ PersistInit(MaxPersistCalls)
    /\ UserIdle
PersistSpec == PersistSpecInit /\ [][PersistNext]_vars

\* Threads calling UserRateLimiter.allow concurrently.
UserSpecInit ==
    /\ MergerInit(0)
    /\ BreakerInit({ScreenerFailureThreshold}, {ScreenerWindowSeconds},
                   {ScreenerRecoveryTimeout}, 0)
    /\ SchedulerInit(0)
    /\ CacheIdle
    /\ LimiterIdle
    /\ RetryIdle
    /\ FacadeIdle
    /\ AnalysisIdle
    /\ BackoffIdle
    /\ PersistIdle
    /\ UserInit(UserLimits, UserWindows, MaxAllowCalls)
UserSpec == UserSpecInit /\ [][UserNext]_vars

-----------------------------------------------------------------------------
(* Properties of the coalescer *)

\* The callers whose _build_context run for key k is in flight.
InFlight(k) == {t \in Callers : pc[t] = "fetch" /\ upper(symbol[t]) = k}

\* C1: for every symbol key, at most one _build_context run started by
\* merge_stock_data is in flight at any instant.
C1_SingleFlight == \A k \in SymbolKeys : Cardinality(InFlight(k)) <= 1

\* A fetch is in flight for a key while another caller, who passed the symbol in
\* a different case, waits on the same entry.
C1_Witness ==
    \E t, u \in Callers :
        /\ pc[t] = "fetch" /\ pc[u] = "wait"
        /\ entry[u] = entry[t]
        /\ symbol[u] # symbol[t]

\* C2: the callers that joined one pending entry all end with the outcome of the
\* single _build_context run made for it: that run is the only one, waiters never
\* fetch, and everyone returns its value or raises its error.
C2_SameOutcome ==
    /\ \A t \in Callers :
           pc[t] = "done" =>
               /\ Len(fetch_log[entry[t]]) = 1
               /\ outcome[t] = fetch_log[entry[t]][1]
    /\ \A t, u \in Callers :
           (pc[t] = "done" /\ pc[u] = "done" /\ entry[t] = entry[u])
               => outcome[t] = outcome[u]
    /\ \A t \in Callers :
           pc[t] \in {"sleep", "fetch", "store_result", "store_error"}
               => is_owner[t]

\* The owner and a waiter of one entry have both ended, by raising the owner's
\* error.
C2_Witness ==
    \E t, u \in Callers :
        /\ pc[t] = "done" /\ pc[u] = "done"
        /\ entry[t] = entry[u]
        /\ is_owner[t] /\ ~is_owner[u]
        /\ outcome[u].kind = "raise"

Stored(e) == entries[e].result # None \/ entries[e].error # None

\* C3: the owner stores its result or error before it signals, and a waiter
\* reads the entry only after the signal: no waiter returns or raises before the
\* outcome is in the shared entry.
C3_StoreBeforeSignal ==
    /\ \A e \in EntryIds : entries[e].event => Stored(e)
    /\ \A t \in Callers :
           (~is_owner[t] /\ pc[t] \in {"read", "done"})
               => entries[entry[t]].event /\ Stored(entry[t])
    /\ \A t \in Callers :
           (~is_owner[t] /\ pc[t] = "done") => outcome[t].value # None

\* A waiter has been woken and is about to read the stored outcome.
C3_Witness ==
    \E t \in Callers :
        /\ pc[t] = "read" /\ ~is_owner[t]
        /\ entries[entry[t]].event

\* The owner of entry e has its fetch behind it.
OwnerFetchOver(e) ==
    \/ entries[e].event
    \/ \E u \in Callers :
           /\ is_owner[u] /\ entry[u] = e
           /\ pc[u] \in {"store_result", "store_error", "signal", "pop"}

\* C4: once the owner's fetch has returned or raised, every waiter blocked on
\* the entry is eventually released; when the owner finishes, the map holds no
\* entry for the key, and a caller that finds none becomes a new owner with a
\* fresh entry.
C4_ReleaseAndRemove ==
    /\ \A t \in Callers :
           (pc[t] = "wait" /\ OwnerFetchOver(entry[t])) ~> (pc[t] = "read")
    /\ [][\A t \in Callers :
              (pc[t] = "pop" /\ pc'[t] = "done")
                  => pending_requests'[upper(symbol[t])] = NoEntry]_vars
    /\ [][\A t \in Callers :
              (pc[t] = "idle" /\ pc'[t] # "idle"
                 /\ pending_requests[upper(symbol'[t])] = NoEntry)
                  => /\ pc'[t] = "sleep"
                     /\ is_owner'[t]
                     /\ pending_requests'[upper(symbol'[t])] = entry'[t]
                     /\ entries'[entry'[t]] = NewEntry]_vars

\* A waiter is blocked on an entry whose owner's fetch has raised and who has
\* not signalled yet.
C4_Witness ==
    \E t, u \in Callers :
        /\ pc[u] = "wait" /\ entry[u] = entry[t]
        /\ is_owner[t] /\ pc[t] = "signal"
        /\ result[t].kind = "raise"

-----------------------------------------------------------------------------
(* Properties of the circuit breaker *)

RECURSIVE SumUpTo(_, _)
SumUpTo(f, n) == IF n < 0 THEN 0 ELSE f[n] + SumUpTo(f, n - 1)

\* The number of recorded throttling failures; of those not older than
\* window_seconds at time t; and of those that, besides, are not later than t.
RecordedCount(rec) == SumUpTo(rec, MaxTime)
RecordedNotOlder(rec, t) ==
    SumUpTo([u \in 0..MaxTime |-> IF t - u <= window_seconds THEN rec[u] ELSE 0],
            MaxTime)
RecordedInWindow(rec, t) ==
    SumUpTo([u \in 0..MaxTime |->
                IF t - u <= window_seconds /\ u <= t THEN rec[u] ELSE 0],
            MaxTime)

\* Request r leaves the locked part of record_failure in this step.
RecordFailureStep(r) == rpc[r] = "record_failure_locked" /\ rpc'[r] = "idle"

\* Request r leaves the locked part of allow_request in this step.
AllowRequestStep(r) == rpc[r] = "allow_request" /\ rpc'[r] # "allow_request"

\* C5: a record_failure that brings the number of throttling failures recorded
\* within the trailing window_seconds (its own included) to failure_threshold
\* moves the breaker to OPEN with opened_until = its time + recovery_timeout;
\* failures older than window_seconds do not count, so while fewer than
\* failure_threshold recorded failures are at most window_seconds old, the
\* state and opened_until stay as they were.
C5_OpensAtThreshold ==
    [][\A r \in Requests :
           RecordFailureStep(r) =>
               /\ RecordedInWindow(recorded', r_now[r]) >= failure_threshold
                      => /\ state' = "OPEN"
                         /\ opened_until' = r_now[r] + recovery_timeout
               /\ RecordedNotOlder(recorded', r_now[r]) < failure_threshold
                      => /\ state' = state
                         /\ opened_until' = opened_until]_vars

\* C6: while the breaker is OPEN and the clock is before opened_until, an
\* allow_request returns False and changes nothing of the breaker.
C6_OpenRejects ==
    [][\A r \in Requests :
           (AllowRequestStep(r) /\ state = "OPEN" /\ now < opened_until)
               => /\ allowed'[r] = "False"
                  /\ rpc'[r] = "idle"
                  /\ state' = state
                  /\ opened_until' = opened_until
                  /\ failures' = failures]_vars

\* A request has just been rejected by the OPEN breaker before opened_until.
C6_Witness ==
    \E r \in Requests :
        /\ rpc[r] = "idle" /\ allowed[r] = "False"
        /\ state = "OPEN" /\ now < opened_until

\* C7: while the request that was let through as the HALF_OPEN probe has not
\* recorded its outcome, every other allow_request returns False.
C7_SingleProbe ==
    [][\A r \in Requests :
           (AllowRequestStep(r) /\ probe # NoRequest /\ probe # r)
               => allowed'[r] = "False"]_vars

\* C8: a record_success in HALF_OPEN leaves the breaker CLOSED with an empty
\* failure window, and a breaker that is OPEN again after a successful probe
\* has recorded at least failure_threshold throttling failures since.
C8_ProbeSuccessCloses ==
    /\ [][\A r \in Requests :
              (rpc[r] = "record_success" /\ rpc'[r] = "idle"
                 /\ state = "HALF_OPEN")
                  => state' = "CLOSED" /\ failures' = <<>>]_vars
    /\ []((last_probe = "succeeded" /\ state = "OPEN")
              => RecordedCount(recorded) >= failure_threshold)

\* The breaker has opened again after a probe succeeded.
C8_Witness == last_probe = "succeeded" /\ state = "OPEN"

\* C9: a record_failure of the probe with a throttling failure, made while
\* the breaker is HALF_OPEN, leaves it OPEN with
\* opened_until = the time of that failure + recovery_timeout.
C9_ProbeFailureReopens ==
    [][\A r \in Requests :
           (RecordFailureStep(r) /\ state = "HALF_OPEN" /\ probe = r)
               => /\ state' = "OPEN"
                  /\ opened_until' = r_now[r] + recovery_timeout]_vars

\* C10: a record_failure with an exception that is no throttling signal
\* changes neither the failure window, nor the state, nor opened_until; the
\* breaker is out of CLOSED only if a throttling failure was recorded since
\* the last success.
C10_OnlyThrottlingCounts ==
    /\ [][\A r \in Requests :
              (rpc[r] \in {"record_failure", "record_failure_locked"}
                 /\ rpc'[r] # rpc[r]
                 /\ ~is_rate_limit_error(r_exc[r]))
                  => /\ failures' = failures
                     /\ state' = state
                     /\ opened_until' = opened_until]_vars
    /\ [](state # "CLOSED" => RecordedCount(recorded) >= 1)

\* record_failure has returned for a failure that is no throttling signal,
\* while the window holds earlier throttling failures and the breaker is CLOSED.
C10_Witness ==
    \E r \in Requests :
        /\ rpc[r] = "idle"
        /\ r_exc[r] # None
        /\ ~is_rate_limit_error(r_exc[r])
        /\ failures # <<>>
        /\ state = "CLOSED"

\* The changes of state a breaker may make.
LegalTransitions ==
    { <<"CLOSED", "OPEN">>, <<"OPEN", "HALF_OPEN">>,
      <<"HALF_OPEN", "CLOSED">>, <<"HALF_OPEN", "OPEN">> }

\* C33: with allow_request, record_success and record_failure of concurrent
\* requests interleaved in any order, the state of the breaker changes only
\* from CLOSED to OPEN, from OPEN to HALF_OPEN, from HALF_OPEN to CLOSED or
\* from HALF_OPEN to OPEN; an OPEN breaker leaves OPEN only for HALF_OPEN,
\* and only once the clock has reached opened_until.
C33_LegalTransitions ==
    [][/\ state' # state => <<state, state'>> \in LegalTransitions
       /\ (state = "OPEN" /\ state' # "OPEN") => now >= opened_until]_vars

-----------------------------------------------------------------------------
(* Properties of the scheduler *)

\* The tasks a _worker thread has taken from the heap and not finished with.
Executing == {w \in Workers : wpc[w] \in {"run", "finally"}}

\* How many tasks with key k are queued or executing.
QueuedOrExecuting(k) ==
    Cardinality({i \in DOMAIN queue : queue[i].key = k})
        + Cardinality({w \in Executing : task[w].key = k})

\* The locked block of schedule is run to its end.
ScheduleStep == spc = "locked" /\ spc' = "idle"

\* C11: schedule(..., key=K) returns False and leaves the queue unchanged
\* whenever a task with key K is queued or executing, and returns True with
\* the task added to the queue otherwise; at most one task per key is queued
\* or executing at any time.
C11_Dedupe ==
    /\ [][ScheduleStep =>
            LET k == last_call'.key
            IN  IF k # NoKey /\ QueuedOrExecuting(k) > 0
                THEN last_call'.ret = "False" /\ queue' = queue
                ELSE /\ last_call'.ret = "True"
                     /\ Len(queue') = Len(queue) + 1
                     /\ \E i \in DOMAIN queue' : queue'[i].key = k]_vars
    /\ [](\A k \in Keys : QueuedOrExecuting(k) <= 1)

\* The accepted tasks with a key that are queued or executing.
AcceptedKeys ==
    {queue[i].key : i \in {j \in DOMAIN queue : queue[j].accepted}}
        \cup {task[w].key : w \in {v \in Executing : task[v].accepted}}

\* C12: the key of an accepted task is held in _inflight_keys from the moment
\* schedule accepted it until its action has returned or raised: a key leaves
\* _inflight_keys only in the finally block of the thread that ran a task with
\* that key, and it does leave then, whether the action returned or raised.
C12_KeyHeldUntilDone ==
    /\ [](\A k \in Keys : k \in AcceptedKeys => k \in inflight_keys)
    /\ [][\A k \in Keys :
            (k \in inflight_keys /\ k \notin inflight_keys') =>
                \E w \in Workers : /\ wpc[w] = "finally"
                                   /\ wpc'[w] = "loop"
                                   /\ task[w].key = k]_vars
    /\ [][\A w \in Workers :
            (wpc[w] = "finally" /\ wpc'[w] = "loop") =>
                task[w].key \notin inflight_keys']_vars

\* (run_at, priority) of a is not above that of b.
PairLeq(a, b) ==
    \/ a.run_at < b.run_at
    \/ a.run_at = b.run_at /\ a.priority <= b.priority

\* C13: the task a _worker thread takes is the queued task with the smallest
\* (run_at, priority) -- no queued task has an earlier run_at, nor the same
\* run_at and a lower priority value -- and its run_at has come.
C13_SmallestFirst ==
    [][\A w \in Workers :
        (wpc[w] = "loop" /\ wpc'[w] = "run") =>
            /\ \E i \in DOMAIN queue : queue[i] = task'[w]
            /\ \A i \in DOMAIN queue : PairLeq(task'[w], queue[i])
            /\ task'[w].run_at <= sched_now]_vars

\* A thread runs a task that was pushed after a task still queued and went
\* ahead of it on priority alone.
C13_Witness ==
    \E w \in Workers :
        /\ wpc[w] = "run"
        /\ queue # <<>>
        /\ \E i \in DOMAIN queue : /\ queue[i].run_at = task[w].run_at
                                   /\ queue[i].priority > task[w].priority
        /\ \E i \in DOMAIN queue : queue[i].run_at > task[w].run_at

C15_SingleWorker ==
    /\ Cardinality({w \in Workers : wpc[w] # "dead"}) <= 1
    /\ Cardinality(Executing) <= 1

-----------------------------------------------------------------------------
(* Properties of the cache *)

\* A step that is a call of get, of set.
GetStep == cache_ops_left' # cache_ops_left /\ last_op'.op = "get"
SetStep == cache_ops_left' # cache_ops_left /\ last_op'.op = "set"

\* What the freshness rule has a get of key answer, given what the tiers
\* hold: the memory tier first, then the disk tier if it can be read; in
\* each, the entry stored at c with ttl T is a fresh hit when now - c < T,
\* a stale hit when not but allow_stale, and no answer otherwise.
Expected(key, allow_stale) ==
    LET inMemory == enable_memory /\ key \in keys(memory_cache)
        m == item(memory_cache, key)
        onDisk == enable_disk /\ disk_ok /\ disk_files[key].exists
        f == disk_files[key]
    IN  IF inMemory /\ cache_now - m.cached_at < m.ttl
        THEN [value |-> m.value, kind |-> "fresh", tier |-> "memory"]
        ELSE IF inMemory /\ allow_stale
        THEN [value |-> m.value, kind |-> "stale", tier |-> "memory"]
        ELSE IF onDisk /\ cache_now - f.cached_at < f.ttl
        THEN [value |-> json_loads(f.value), kind |-> "fresh", tier |-> "disk"]
        ELSE IF onDisk /\ allow_stale
        THEN [value |-> json_loads(f.value), kind |-> "stale", tier |-> "disk"]
        ELSE [value |-> NoValue, kind |-> "miss", tier |-> "none"]

\* C16: set stores the entry with the time of the call and its ttl in every
\* usable tier, and a get at time t answers with an entry stored at c with
\* ttl T as a fresh hit exactly when t - c < T, as a stale hit when
\* t - c >= T and allow_stale, and not at all otherwise -- in the memory tier
\* and in the disk tier alike.
C16_Freshness ==
    /\ [][GetStep =>
            LET e == Expected(last_op'.key, last_op'.allow_stale)
            IN  /\ last_op'.value = e.value
                /\ last_op'.kind = e.kind
                /\ last_op'.tier = e.tier]_vars
    /\ [][SetStep =>
            LET k == last_op'.key
            IN  /\ (enable_memory /\ k \in keys(memory_cache')) =>
                    /\ item(memory_cache', k).cached_at = cache_now
                    /\ item(memory_cache', k).ttl = last_op'.ttl
                /\ (enable_disk /\ disk_ok) =>
                    /\ disk_files'[k].exists
                    /\ disk_files'[k].cached_at = cache_now
                    /\ disk_files'[k].ttl = last_op'.ttl]_vars

\* A get without allow_stale has just missed an entry of the disk tier whose
\* age is exactly its ttl.
C16_Witness ==
    /\ last_op.op = "get"
    /\ last_op.kind = "miss"
    /\ ~last_op.allow_stale
    /\ enable_disk /\ disk_ok
    /\ disk_files[last_op.key].exists
    /\ cache_now - disk_files[last_op.key].cached_at
           = disk_files[last_op.key].ttl

\* C17: set(key, value, ttl) with ttl > 0 immediately followed by get(key)
\* returns value as a fresh hit, in every tier configuration.
C17_RoundTrip ==
    [][(GetStep /\ last_op.op = "set" /\ last_op.key = last_op'.key
            /\ last_op.ttl > 0) =>
            /\ last_op'.kind = "fresh"
            /\ last_op'.value = last_op.value]_vars

\* The n first items of a sequence, as a set.
Oldest(rec, n) == {rec[i] : i \in 1..(IF n > 0 THEN n ELSE 0)}

\* C18: when a set leaves more than max_entries keys in the memory tier, the
\* keys dropped are the least recently used ones, a use being a set or a get
\* hit, and every other key stays.
C18_LruEviction ==
    [][(SetStep /\ enable_memory) =>
            LET used == Touch(recency, last_op'.key)
                over == Len(used) - max_entries
            IN  /\ last_op'.evicted = Oldest(used, over)
                /\ keys(memory_cache')
                       = {used[i] : i \in DOMAIN used} \ Oldest(used, over)]_vars

\* The fourth call on a memory-only cache of two entries is a set of C that
\* has just dropped B and kept A.
C18_Witness ==
    /\ last_op.op = "set"
    /\ last_op.evicted # {}
    /\ max_entries = 2
    /\ ~enable_disk
    /\ keys(memory_cache) = {"A", "C"}
    /\ last_op.evicted = {"B"}
    /\ cache_ops_left = MaxLruOps - 4

\* C19: a get that misses the memory tier and is answered by a lower tier
\* (disk file, Redis, SQLite store) leaves the entry in the memory tier.
C19_PromotionOnRead ==
    [][(cache_ops_left' # cache_ops_left
            /\ last_op'.op \in {"get", "service_get"}
            /\ last_op'.tier \in {"disk", "redis", "sqlite"}
            /\ enable_memory) =>
            last_op'.key \in keys(memory_cache')]_vars

\* C20: no call of get or set raises to its caller, whatever tier is
\* unavailable.
C20_NeverRaises == last_op.op # "none" => ~last_op.raised

\* The value of key is held by a usable tier.
Held(key) ==
    \/ enable_memory /\ key \in keys(memory_cache)
    \/ enable_disk /\ disk_ok /\ disk_files[key].exists

\* C21: when every entry is stored with a zero or negative ttl, no get
\* reports a fresh hit, and a get of a key whose value a tier holds returns
\* it as a stale hit, never as a miss.
C21_ZeroTtlAlwaysStale ==
    [][GetStep =>
            /\ last_op'.kind # "fresh"
            /\ Held(last_op'.key) => last_op'.kind = "stale"]_vars

-----------------------------------------------------------------------------
(* Properties of the rate limiter *)

\* C22: any two consecutive returns from wait(), by the same or by different
\* threads, are at least min_interval - jitter * min_interval apart, and the
\* first call on a fresh instance does not sleep.
C22_Spacing ==
    /\ Len(returns) = 2 =>
           returns[2].at - returns[1].at >= min_interval - jitter_span
    /\ (limiter_last_call = 0 /\ limiter_lock # NoThread) =>
           wake_at[limiter_lock] = entered_at[limiter_lock]

\* Two threads returned one after the other, the second after a sleep that
\* the jitter shortened as far as it can.
C22_Witness ==
    /\ Len(returns) = 2
    /\ returns[1].thread # returns[2].thread
    /\ jitter_span > 0
    /\ min_interval > jitter_span
    /\ returns[2].slept > 0
    /\ returns[2].at - returns[1].at = min_interval - jitter_span

-----------------------------------------------------------------------------
(* Properties of retry_with_backoff *)

\* The retries recorded for a key at most window seconds before t.
RetriesInWindow(key, t, window) ==
    Cardinality({i \in DOMAIN retry_timestamps[key] :
                     t - retry_timestamps[key][i] <= window})

\* C23: for every retry key, the number of retries recorded within the
\* trailing window of window_seconds never exceeds max_retries, also when
\* callers race on the key.
C23_RetryBound ==
    \A key \in RetryKeys :
        RetriesInWindow(key, retry_now, retry_window_seconds) <= max_retries

\* Caller c calls the wrapped function in this step.
Invokes(c) == bpc[c] = "try" /\ invocations'[c] = invocations[c] + 1

\* C24: no attempt for a retry key starts while the key's cooldown is
\* active, and a call entered during the cooldown raises RateLimitError
\* without calling the wrapped function.
C24_CooldownPriority ==
    [][\A c \in RetryCallers :
            /\ (Invokes(c) /\ retry_key[c] # NoKey) =>
                   ~in_cooldown(cooldowns, retry_key[c], retry_now)
            /\ (bpc[c] = "idle" /\ bpc'[c] = "try") =>
                   ~in_cooldown(cooldowns, retry_key'[c], retry_now)
            /\ (bpc[c] = "idle" /\ bpc'[c] = "idle"
                    /\ call_result'[c] # call_result[c]) =>
                   /\ call_result'[c] = "RateLimitError"
                   /\ invocations'[c] = invocations[c]]_vars

\* C25: inside one request_budget(max_attempts=M) context the wrapped
\* functions are called at most M times in total.
C25_AttemptBudget ==
    \A c \in RetryCallers : invocations[c] <= budget_max_attempts

\* The caller has used up its budget over calls for two different keys, and
\* its next attempt found the budget exhausted.
C25_Witness ==
    /\ invocations[1] = budget_max_attempts
    /\ budget_max_attempts = MaxBudget
    /\ retry_timestamps["x"] # <<>>
    /\ retry_timestamps["y"] # <<>>
    /\ last_exception[1] = BudgetExhausted

\* C26: once an attempt has found the request budget exhausted, the call
\* ends with RetryBudgetExceeded in its next step: no retry is recorded, no
\* sleep starts and no further attempt is made.
C26_BudgetFailsFast ==
    [][\A c \in RetryCallers :
            (bpc[c] = "except" /\ last_exception[c] = BudgetExhausted
                /\ bpc'[c] # "except") =>
                /\ bpc'[c] = "idle"
                /\ call_result'[c] = "RetryBudgetExceeded"
                /\ retry_timestamps' = retry_timestamps]_vars

\* The latest call of caller c is over and every one of its max_attempts
\* attempts called the function and failed with an ordinary failure.
AllAttemptsFailed(c) ==
    /\ bpc[c] = "idle"
    /\ call_result[c] # "none"
    /\ Len(func_failures[c]) = max_attempts
    /\ \A i \in DOMAIN func_failures[c] :
            ~is_rate_limit_error(func_failures[c][i])

\* C31: one call invokes the wrapped function at most max_attempts times;
\* when all of them failed with an ordinary failure the call raises the
\* failure of the last attempt; and every call that is entered ends.
C31_BoundedRetry ==
    /\ [](\A c \in RetryCallers :
            /\ Len(func_failures[c]) <= max_attempts
            /\ call_result[c] = "returned" =>
                    Len(func_failures[c]) + 1 <= max_attempts
            /\ AllAttemptsFailed(c) =>
                    reraised[c] = func_failures[c][max_attempts])
    /\ \A c \in RetryCallers : (bpc[c] # "idle") ~> (bpc[c] = "idle")

\* A call made two attempts that failed in two different ordinary ways, and
\* ended with the second failure.
C31_Witness ==
    /\ max_attempts = MaxAttempts
    /\ AllAttemptsFailed(1)
    /\ func_failures[1][1] # func_failures[1][2]
    /\ reraised[1] = func_failures[1][2]

-----------------------------------------------------------------------------
(* Properties of the caching façade *)

\* A step that is a call of the wrapper.
FacadeStep == facade_calls_left' # facade_calls_left

\* The values the usable tiers hold for key, fresh or not.
HeldValues(key) ==
    {item(memory_cache, k).value :
         k \in {k2 \in {key} : enable_memory /\ k2 \in keys(memory_cache)}}
    \cup {json_loads(disk_files[k].value) :
         k \in {k2 \in {key} : enable_disk /\ disk_ok /\ disk_files[k2].exists}}

\* No tier holds a fresh entry for key.
NoFresh(key) == Expected(key, FALSE).kind = "miss"

\* The breaker refuses a request made now.
Rejects == has_breaker /\ ~allow_request(state, opened_until, cache_now).allowed

\* C27: when the breaker rejects the request and no fresh entry exists, the
\* wrapper does not enter the wrapped chain (rate limiter, fetch function);
\* it returns the stale value if a tier holds one and raises
\* CircuitOpenError otherwise.
C27_RejectedShortCircuits ==
    [][(FacadeStep /\ Rejects /\ NoFresh(facade_last'.key)) =>
            /\ facade_last'.chain = "none"
            /\ IF HeldValues(facade_last'.key) # {}
               THEN /\ facade_last'.outcome = "returned"
                    /\ facade_last'.value \in HeldValues(facade_last'.key)
               ELSE /\ facade_last'.outcome = "raised"
                    /\ facade_last'.exc = "CircuitOpenError"]_vars

\* C28: when the wrapped chain fails and a tier holds an expired value for
\* the key, the wrapper returns that value; it raises only when no tier
\* holds a value.
C28_StaleOnError ==
    [][(FacadeStep /\ allow_stale_on_error /\ facade_last'.chain = "raised") =>
            IF HeldValues(facade_last'.key) # {}
            THEN /\ facade_last'.outcome = "returned"
                 /\ facade_last'.value \in HeldValues(facade_last'.key)
            ELSE facade_last'.outcome = "raised"]_vars

\* C39: a wrapper call that finds a fresh entry for its key returns it and
\* touches nothing else: the wrapped chain is not entered (so neither the
\* rate limiter nor the retry wrapper nor the fetch function runs), and the
\* breaker's state, failure window and opened_until, the rate limiter's
\* last-call time, the retry timestamps and cooldowns and the request's
\* attempt budget are as before, whatever the state of the breaker.
C39_FreshHitFrame ==
    [][(FacadeStep /\ ~NoFresh(facade_last'.key)) =>
            /\ facade_last'.outcome = "returned"
            /\ facade_last'.chain = "none"
            /\ UNCHANGED <<state, failures, opened_until>>
            /\ UNCHANGED <<limiter_last_call, retry_timestamps, cooldowns,
                           budget_attempts, invocations>>]_vars

\* The latest call returned a fresh entry without entering the chain while
\* the breaker was OPEN and rejecting requests.
C39_Witness ==
    /\ facade_last.outcome = "returned"
    /\ facade_last.chain = "none"
    /\ ~NoFresh(facade_last.key)
    /\ state = "OPEN"
    /\ Rejects

-----------------------------------------------------------------------------
(* Properties of the analysis cache *)

\* A request through decorated_function has ended.
AnalysisStep == analysis_calls_left' = analysis_calls_left - 1

\* The report the SQLite store holds under a cache key.
Persisted(cache_key) == wrapped_loads(sqlite_store[cache_key].value).data

C30_BoundedStaleness ==
    [][AnalysisStep =>
        /\ analysis_last'.ended = "cached" => analysis_last'.age <= stale_ttl
        /\ (analysis_last'.ended # "none" /\ analysis_last'.found
            /\ analysis_last'.age > stale_ttl) =>
                /\ analysis_last'.fetched
                /\ analysis_last'.scheduled = "none"]_vars
\* A request found a report older than the stale window, ran the route and
\* ended with its response.
C30_Witness ==
    /\ analysis_last.ended = "response"
    /\ analysis_last.found
    /\ analysis_last.age > stale_ttl
    /\ analysis_last.fetched

\* C32: a report stored with ttl T is returned through the fresh path (the
\* cached report, no refresh scheduled, the route not run) exactly when its
\* age is below T.
C32_FreshBelowTtl ==
    [][(AnalysisStep /\ analysis_last'.ended # "none"
            /\ analysis_last'.found) =>
        ((/\ analysis_last'.ended = "cached"
          /\ analysis_last'.scheduled = "none"
          /\ ~analysis_last'.fetched)
            <=> analysis_last'.age < analysis_last'.ttl)]_vars
-----------------------------------------------------------------------------
(* Properties of the backoff schedule *)

\* C34: for ordinary failures the base wait after the second failed attempt
\* is strictly larger than the base wait after the first, from the third
\* failed attempt on each base wait is the one before it multiplied by
\* backoff_factor, and the jitter added to a wait lies between 0 and jitter
\* times the base wait.
C34_BackoffSchedule ==
    [][(failed_attempt >= 1 /\ failed_attempt' = failed_attempt + 1) =>
          /\ failed_attempt = 2 => base_waits'[2] > base_waits'[1]
          /\ failed_attempt >= 3 =>
                base_waits'[2] = (base_waits'[1] * backoff_factor) \div 10
          /\ backoff_jitter' >= 0
          /\ 100 * backoff_jitter' <= jitter * base_waits'[Len(base_waits')]]_vars
-----------------------------------------------------------------------------
(* Properties of the durable store *)

\* The greatest element of a non-empty set of clock readings.
Greatest(S) == CHOOSE x \in S : \A y \in S : y <= x

\* C35: once the concurrent set calls for a key have all returned, the row
\* the durable store holds for the key is the one with the greatest
\* cached_at among them.
C35_LastWriteWins ==
    \A k \in PersistKeys :
        ((\A w \in PersistWriters : ppc[w] = "idle") /\ completed[k] # {})
            => /\ cache_entries[k].present
               /\ cache_entries[k].cached_at = Greatest(completed[k])
-----------------------------------------------------------------------------
(* Properties of the capacity of the memory tier *)

\* C36: after any sequence of set and get calls, gets that load an entry
\* from disk into memory included, the memory tier of APICache holds at most
\* max_entries entries.
C36_MemoryBounded == Len(memory_cache) <= max_entries
-----------------------------------------------------------------------------
(* Properties of the scheduler: what becomes of the accepted tasks *)

\* The number of tasks in the heap whose schedule call returned True.
AcceptedQueued(heap) ==
    Cardinality({i \in 1..Len(heap) : heap[i].accepted})

\* C37: a task whose schedule call returned True is executed exactly once. It
\* leaves the queue only by being taken by a _worker thread that then runs
\* it, one task at a time; it is never dropped.
C37_ExecutedOnce ==
    [][AcceptedQueued(queue') < AcceptedQueued(queue) =>
          /\ AcceptedQueued(queue') = AcceptedQueued(queue) - 1
          /\ \E w \in Workers :
                /\ wpc[w] = "loop"
                /\ wpc'[w] = "run"
                /\ task'[w] = queue[1]
                /\ task'[w].accepted]_vars

\* C38: stop() discards no queued task, and after stop() a _worker thread
\* does not leave its loop while the queue is non-empty: it terminates only
\* once it finds the queue empty.
C38_DrainsBeforeExit ==
    [][/\ (running /\ ~running') => queue' = queue
       /\ \A w \in Workers :
             (~running /\ wpc[w] # "dead" /\ wpc'[w] = "dead")
                 => queue' = <<>>]_vars
-----------------------------------------------------------------------------
(* Properties of the per-client limiter *)

\* The number of calls for key that returned True with a clock reading in
\* the interval [t, t + window_seconds].
RECURSIVE GrantedFrom(_, _, _)
GrantedFrom(key, t, upto) ==
    IF t > upto \/ t > MaxUserTime
    THEN 0
    ELSE granted[key][t] + GrantedFrom(key, t + 1, upto)

\* C40: for each key, allow returns True at most limit times within any
\* interval of window_seconds, under concurrent callers too; and a call that
\* is denied records no timestamp.
C40_PerClientLimit ==
    /\ [](\A k \in UserKeys, t \in 0..MaxUserTime :
              GrantedFrom(k, t, t + user_window) <= user_limit)
    /\ [][\A c \in UserCallers :
              (upc[c] = "lock" /\ upc'[c] = "idle" /\ u_ret'[c] = "False")
                  => /\ Len(user_events'[u_key[c]]) <= Len(user_events[u_key[c]])
                     /\ granted' = granted]_vars

====
